---------------------------- MODULE Spec2Model ----------------------------
(***************************************************************************)
(* A model of the Hissp reader (hissp/reader.py) and compiler driver        *)
(* (hissp/compiler.py).                                                     *)
(*                                                                          *)
(* Source text is a sequence of one-character strings.  The Lexer is the   *)
(* TOKENS regular expression, alternative by alternative; the Parser is    *)
(* the recursive generator of reader.py with its Python call stack made    *)
(* explicit in the variable frames: one action per token kind.             *)
(***************************************************************************)
EXTENDS Integers, Sequences, FiniteSets, TLC

VARIABLES
    code,            \* Lexer.code: the text given to Lissp.reads
    lexer_pos,       \* Lexer._it's pos: offset of the next token
    parser_pos,      \* Parser._pos: end offset of the last token pulled
    depth,           \* Parser.depth: positions of the open parens
    context,         \* Parser.context: Backtick and "," markers
    counters,        \* Parser.counters: one template number per open template
    frames,          \* the parser's call stack: _open, _pull and _tag activations
    out,             \* the forms the consumer of the Parser has received
    err,             \* the exception that ended the parse, if any
    pc,              \* where the consumer of the Parser stands
    lissp,           \* the Lissp instance the Parser belongs to
    qualname,        \* Lissp.qualname
    blake,           \* Parser.blake: the bytes its hasher has been fed
    template_count,  \* Lissp._template_count of every Lissp instance
    nreads,          \* how many Parsers each Lissp instance has made
    gensyms,         \* every gensym made so far, and where it was read
    templates,       \* every template read so far: the form and what it became
    reads_done,      \* finished reads: what each Lissp read and what it yielded
    env,             \* Compiler.env: the module namespace
    mode,            \* "reads": Lissp.reads is iterated; "compile": Lissp.compile
    form,            \* Compiler.compile's loop variable: the form read or its code
    result,          \* Compiler.compile's result list
    log,             \* what each top-level form saw: a record per form
    error,           \* Compiler.error: the exception _trace caught last (0 or 1)
    abort,           \* Compiler.abort: the traceback of a failed exec (0 or 1)
    warnings,        \* the PostCompileWarnings issued: the number of each form
    ENV,             \* compiler.ENV: the context variable (a sequence of 0 or 1 env)
    blocks,          \* the macro_context blocks that are open, innermost last
    exited,          \* the macro_context block that exited last
    tpc,             \* the position of each thread inside template_count
    treg,            \* each thread's evaluation stack (the value it loaded)
    treader,         \* the Lissp instance each thread calls
    returned,        \* the calls of template_count that returned
    overlapped       \* the Lissp instances on which two calls ever overlapped

readerVars == <<code, lexer_pos, parser_pos, depth, context, counters, frames,
                out, err, pc, lissp, qualname, blake, template_count, nreads,
                gensyms, templates, reads_done>>
compilerVars == <<env, mode, form, result, log>>
contextVars == <<ENV, blocks, exited>>
threadVars == <<tpc, treg, treader, returned, overlapped>>
flagVars == <<error, abort, warnings>>
vars == <<readerVars, compilerVars, contextVars, threadVars, flagVars>>

(***************************************************************************)
(* Characters and strings.                                                  *)
(***************************************************************************)
\* The grave accent character (the template token), which cannot be written
\* inside a string of this module.
Backtick == "BACKTICK"
Lower == {"a","b","c","d","e","f","g","h","i","j","k","l","m",
          "n","o","p","q","r","s","t","u","v","w","x","y","z"}
Upper == {"A","B","C","D","E","F","G","H","I","J","K","L","M",
          "N","O","P","Q","R","S","T","U","V","W","X","Y","Z"}
Digits == {"0","1","2","3","4","5","6","7","8","9"}
\* \w of the regular expressions, and the characters str.isidentifier accepts
\* after the first one (ASCII part)
WordChars == Lower \cup Upper \cup Digits \cup {"_"}
\* [\n ] of the whitespace token
Whitespace == {"\n", " "}
\* \s other than the two characters Lissp accepts
BadSpace == {"\t", "\r", "\f"}
\* the characters no bare, control, tag or kwarg token contains unescaped:
\* [^\\ \n"|();]
Delimiters == {"\\", " ", "\n", "\"", "|", "(", ")", ";"}

\* the end of the longest run of characters of S that starts at offset p
RunEnd(s, p, S) ==
    CHOOSE e \in p..Len(s) :
        /\ \A i \in (p+1)..e : s[i] \in S
        /\ (e = Len(s) \/ s[e+1] \notin S)

\* the end of the longest run of characters outside S that starts at offset p
RunEndNot(s, p, S) ==
    CHOOSE e \in p..Len(s) :
        /\ \A i \in (p+1)..e : s[i] \notin S
        /\ (e = Len(s) \/ s[e+1] \in S)

StartsWith(s, prefix) ==
    /\ Len(s) >= Len(prefix)
    /\ SubSeq(s, 1, Len(prefix)) = prefix

\* s[p:p+len(lit)] == lit
At(s, p, lit) ==
    /\ p + Len(lit) <= Len(s)
    /\ SubSeq(s, p+1, p+Len(lit)) = lit

\* the number of elements of s equal to c: list.count, str.count
Count(s, c) == Cardinality({i \in 1..Len(s) : s[i] = c})

(***************************************************************************)
(* The Lexer: TOKENS.match(code, pos), the alternatives in their order.    *)
(* Each XEnd(s, p) is the end of the match of alternative X at offset p,   *)
(* or -1 when X does not match there.                                       *)
(***************************************************************************)
whitespaceEnd(s, p) ==
    IF RunEnd(s, p, Whitespace) > p THEN RunEnd(s, p, Whitespace) ELSE -1

\* one [ ]*;.*\n
commentLineEnd(s, p) ==
    LET semi == RunEnd(s, p, {" "})
        eol == RunEndNot(s, semi, {"\n"})
    IN IF At(s, semi, <<";">>) /\ eol < Len(s) THEN eol + 1 ELSE -1

RECURSIVE commentLinesEnd(_, _)
commentLinesEnd(s, p) ==
    IF commentLineEnd(s, p) = -1 THEN p ELSE commentLinesEnd(s, commentLineEnd(s, p))

commentEnd(s, p) ==
    IF commentLinesEnd(s, p) > p THEN commentLinesEnd(s, p) ELSE -1

unquoteEnd(s, p) ==
    IF At(s, p, <<",", "@">>) THEN p + 2
    ELSE IF At(s, p, <<",">>) THEN p + 1 ELSE -1

stararg_End(s, p) ==
    IF At(s, p, <<"*", "*", "=">>) THEN p + 3
    ELSE IF At(s, p, <<"*", "=">>) THEN p + 2 ELSE -1

\* (?:\\.|[^\\ \n"|();#])* (?:\\.|\w) = , for text without backslashes: the
\* longest prefix of the run that ends in a word character and "="
kwargEnd(s, p) ==
    LET run == RunEndNot(s, p, Delimiters \cup {"#"})
        ends == {e \in (p+2)..run : s[e] = "=" /\ s[e-1] \in WordChars}
    IN IF ends = {} THEN -1 ELSE CHOOSE e \in ends : \A f \in ends : f <= e

\* (?:\\.|[^\\ \n"|();#])* (?:\\.|[^\\ \n"|();#.]) [#]+
tagEnd(s, p) ==
    LET run == RunEndNot(s, p, Delimiters \cup {"#"})
    IN IF run > p /\ s[run] /= "." /\ At(s, run, <<"#">>)
       THEN RunEnd(s, run, {"#"}) ELSE -1

\* " (?:[^"\\]|\\(?:.|\n))* " , for text without backslashes
unicodeEnd(s, p) ==
    LET close == RunEndNot(s, p + 1, {"\"", "\\"})
    IN IF At(s, p, <<"\"">>) /\ At(s, close, <<"\"">>) THEN close + 1 ELSE -1

\* [|] (?:[^|\n]|[|][|])* [|]
RECURSIVE fragmentBody(_, _)
fragmentBody(s, p) ==
    LET q == RunEndNot(s, p, {"|", "\n"})
    IN IF At(s, q, <<"|", "|">>) /\ fragmentBody(s, q + 2) /= -1
       THEN fragmentBody(s, q + 2)
       ELSE IF At(s, q, <<"|">>) THEN q + 1 ELSE -1

fragmentEnd(s, p) == IF At(s, p, <<"|">>) THEN fragmentBody(s, p + 1) ELSE -1

\* " | ;.*
continueEnd(s, p) ==
    IF At(s, p, <<"\"">>) THEN p + 1
    ELSE IF At(s, p, <<";">>) THEN RunEndNot(s, p, {"\n"}) ELSE -1

\* (?:\\.|[^\\ \n"|();])* from offset p: a backslash takes the character
\* after it, unless that is a newline
RECURSIVE EscapedRunEnd(_, _)
EscapedRunEnd(s, p) ==
    IF p + 2 <= Len(s) /\ s[p+1] = "\\" /\ s[p+2] /= "\n"
    THEN EscapedRunEnd(s, p + 2)
    ELSE IF p + 1 <= Len(s) /\ s[p+1] \notin Delimiters
    THEN EscapedRunEnd(s, p + 1)
    ELSE p

controlEnd(s, p) ==
    IF At(s, p, <<":">>) THEN EscapedRunEnd(s, p + 1) ELSE -1

bareEnd(s, p) ==
    IF EscapedRunEnd(s, p) > p THEN EscapedRunEnd(s, p) ELSE -1

\* match.lastgroup and match.end() of TOKENS.match(code, pos)
TOKENS(s, p) ==
    CASE whitespaceEnd(s, p) /= -1 -> [k |-> "whitespace", end |-> whitespaceEnd(s, p)]
      [] commentEnd(s, p) /= -1 -> [k |-> "comment", end |-> commentEnd(s, p)]
      [] s[p+1] \in BadSpace -> [k |-> "badspace", end |-> p + 1]
      [] s[p+1] = "(" -> [k |-> "open", end |-> p + 1]
      [] s[p+1] = ")" -> [k |-> "close", end |-> p + 1]
      [] s[p+1] = Backtick -> [k |-> "template", end |-> p + 1]
      [] unquoteEnd(s, p) /= -1 -> [k |-> "unquote", end |-> unquoteEnd(s, p)]
      [] s[p+1] = "'" -> [k |-> "quote", end |-> p + 1]
      [] At(s, p, <<".", "#">>) -> [k |-> "inject", end |-> p + 2]
      [] At(s, p, <<"_", "#">>) -> [k |-> "discard", end |-> p + 2]
      [] At(s, p, <<"$", "#">>) -> [k |-> "gensym", end |-> p + 2]
      [] stararg_End(s, p) /= -1 -> [k |-> "stararg", end |-> stararg_End(s, p)]
      [] kwargEnd(s, p) /= -1 -> [k |-> "kwarg", end |-> kwargEnd(s, p)]
      [] tagEnd(s, p) /= -1 -> [k |-> "tag", end |-> tagEnd(s, p)]
      [] unicodeEnd(s, p) /= -1 -> [k |-> "unicode", end |-> unicodeEnd(s, p)]
      [] fragmentEnd(s, p) /= -1 -> [k |-> "fragment", end |-> fragmentEnd(s, p)]
      [] continueEnd(s, p) /= -1 -> [k |-> "continue", end |-> continueEnd(s, p)]
      [] s[p+1] = "|" -> [k |-> "badfrag", end |-> p + 1]
      [] controlEnd(s, p) /= -1 -> [k |-> "control", end |-> controlEnd(s, p)]
      [] bareEnd(s, p) /= -1 -> [k |-> "bare", end |-> bareEnd(s, p)]
      [] OTHER -> [k |-> "error", end |-> p + 1]

\* the Token (kind, text, end offset) that Lexer._it yields at offset p
Token(s, p) ==
    [k |-> TOKENS(s, p).k,
     v |-> SubSeq(s, p + 1, TOKENS(s, p).end),
     pos |-> TOKENS(s, p).end]

\* Lexer.position: lineno and offset of a character offset
position(s, p) ==
    LET newlines == {i \in 1..p : s[i] = "\n"}
        last == IF newlines = {} THEN 0
                ELSE CHOOSE i \in newlines : \A j \in newlines : j <= i
    IN [lineno |-> Cardinality(newlines) + 1, offset |-> p - last]


(***************************************************************************)
(* Strings.  A str is a sequence of characters; an element that is no      *)
(* ASCII character stands for the Base32 text of one gensym hash.          *)
(***************************************************************************)
Punctuation == {"!", "\"", "#", "$", "%", "&", "'", "(", ")", "*", "+", ",", "-",
                ".", "/", ":", ";", "<", "=", ">", "?", "@", "[", "\\", "]", "^",
                Backtick, "{", "|", "}", "~", " ", "\n", "\t", "\r", "\f"}
Ascii == WordChars \cup Punctuation
IsHash(c) == c \notin Ascii

Last(s) == s[Len(s)]
Front(s) == SubSeq(s, 1, Len(s) - 1)

RECURSIVE Concat(_)
\* "".join(parts)
Concat(parts) == IF parts = <<>> THEN <<>> ELSE Head(parts) \o Concat(Tail(parts))

\* sep.join(parts)
RECURSIVE Join(_, _)
Join(sep, parts) ==
    IF Len(parts) <= 1 THEN Concat(parts)
    ELSE Head(parts) \o sep \o Join(sep, Tail(parts))

\* s.split(".")
RECURSIVE SplitDots(_)
SplitDots(s) ==
    LET d == RunEndNot(s, 0, {"."})
    IN IF d = Len(s) THEN <<s>>
       ELSE <<SubSeq(s, 1, d)>> \o SplitDots(SubSeq(s, d + 2, Len(s)))

\* sub in s
Contains(s, sub) == \E p \in 0..Len(s) : At(s, p, sub)

\* s.replace(old, new), old not empty
RECURSIVE Replace(_, _, _)
Replace(s, old, new) ==
    IF s = <<>> THEN <<>>
    ELSE IF At(s, 0, old) THEN new \o Replace(SubSeq(s, Len(old) + 1, Len(s)), old, new)
    ELSE <<Head(s)>> \o Replace(Tail(s), old, new)

\* str.isidentifier, for ASCII text and gensym hashes (which are lower case
\* Base32: letters and the digits 2 to 7)
isidentifier(s) ==
    /\ s /= <<>>
    /\ s[1] \in Lower \cup Upper \cup {"_"} \/ IsHash(s[1])
    /\ \A i \in 2..Len(s) : s[i] \in WordChars \/ IsHash(s[i])

\* keyword.kwlist
kwlist == {<<"F","a","l","s","e">>, <<"N","o","n","e">>, <<"T","r","u","e">>,
    <<"a","n","d">>, <<"a","s">>, <<"a","s","s","e","r","t">>,
    <<"a","s","y","n","c">>, <<"a","w","a","i","t">>,
    <<"b","r","e","a","k">>, <<"c","l","a","s","s">>,
    <<"c","o","n","t","i","n","u","e">>, <<"d","e","f">>, <<"d","e","l">>,
    <<"e","l","i","f">>, <<"e","l","s","e">>, <<"e","x","c","e","p","t">>,
    <<"f","i","n","a","l","l","y">>, <<"f","o","r">>, <<"f","r","o","m">>,
    <<"g","l","o","b","a","l">>, <<"i","f">>, <<"i","m","p","o","r","t">>,
    <<"i","n">>, <<"i","s">>, <<"l","a","m","b","d","a">>,
    <<"n","o","n","l","o","c","a","l">>, <<"n","o","t">>, <<"o","r">>,
    <<"p","a","s","s">>, <<"r","a","i","s","e">>,
    <<"r","e","t","u","r","n">>, <<"t","r","y">>, <<"w","h","i","l","e">>,
    <<"w","i","t","h">>, <<"y","i","e","l","d">>}

\* munger.TO_NAME, without the Qz and the _ that QUOTEZ wraps around each name
TO_NAME ==
    ("!" :> <<"B","A","N","G">>)
    @@ ("\"" :> <<"Q","U","O","T">>)
    @@ ("#" :> <<"H","A","S","H">>)
    @@ ("$" :> <<"D","O","L","R">>)
    @@ ("%" :> <<"P","C","E","N","T">>)
    @@ ("&" :> <<"E","T">>)
    @@ ("'" :> <<"A","P","O","S">>)
    @@ ("(" :> <<"L","P","A","R">>)
    @@ (")" :> <<"R","P","A","R">>)
    @@ ("*" :> <<"S","T","A","R">>)
    @@ ("+" :> <<"P","L","U","S">>)
    @@ ("-" :> <<"H">>)
    @@ ("." :> <<"D","O","T">>)
    @@ ("/" :> <<"S","O","L">>)
    @@ (";" :> <<"S","E","M","I">>)
    @@ ("<" :> <<"L","T">>)
    @@ ("=" :> <<"E","Q">>)
    @@ (">" :> <<"G","T">>)
    @@ ("?" :> <<"Q","U","E","R","Y">>)
    @@ ("@" :> <<"A","T">>)
    @@ ("[" :> <<"L","S","Q","B">>)
    @@ ("\\" :> <<"B","S","O","L">>)
    @@ ("]" :> <<"R","S","Q","B">>)
    @@ ("^" :> <<"H","A","T">>)
    @@ (Backtick :> <<"G","R","A","V","E">>)
    @@ ("{" :> <<"L","C","U","B">>)
    @@ ("|" :> <<"V","E","R","T">>)
    @@ ("}" :> <<"R","C","U","B">>)

\* unicodedata.name(c).translate(_QZ_NAME) of the other characters the model reads
UNICODE_NAME ==
    ("," :> <<"C","O","M","M","A">>)
    @@ (":" :> <<"C","O","L","O","N">>)
    @@ ("~" :> <<"T","I","L","D","E">>)
    @@ (" " :> <<"S","P","A","C","E">>)
    @@ ("0" :> <<"D","I","G","I","T","x","Z","E","R","O">>)
    @@ ("1" :> <<"D","I","G","I","T","x","O","N","E">>)
    @@ ("2" :> <<"D","I","G","I","T","x","T","W","O">>)
    @@ ("3" :> <<"D","I","G","I","T","x","T","H","R","E","E">>)
    @@ ("4" :> <<"D","I","G","I","T","x","F","O","U","R">>)
    @@ ("5" :> <<"D","I","G","I","T","x","F","I","V","E">>)
    @@ ("6" :> <<"D","I","G","I","T","x","S","I","X">>)
    @@ ("7" :> <<"D","I","G","I","T","x","S","E","V","E","N">>)
    @@ ("8" :> <<"D","I","G","I","T","x","E","I","G","H","T">>)
    @@ ("9" :> <<"D","I","G","I","T","x","N","I","N","E">>)


_iskeyword(s) == s \in kwlist

(***************************************************************************)
(* munger.py                                                                *)
(***************************************************************************)
\* QUOTEZ.format(name)
QUOTEZ(name) == <<"Q", "z">> \o name \o <<"_">>

\* f"{ord(c):#X}" of the control characters the model reads
ORDINAL == ("\n" :> <<"0","X","A">>) @@ ("\t" :> <<"0","X","9">>)
           @@ ("\r" :> <<"0","X","D">>) @@ ("\f" :> <<"0","X","C">>)

force_qz_encode(c) ==
    IF c \in DOMAIN TO_NAME THEN QUOTEZ(TO_NAME[c])
    ELSE IF c \in DOMAIN UNICODE_NAME THEN QUOTEZ(UNICODE_NAME[c])
    ELSE IF c \in DOMAIN ORDINAL THEN QUOTEZ(ORDINAL[c])
    ELSE <<c>>

qz_encode(c) == IF isidentifier(<<"x", c>>) THEN <<c>> ELSE force_qz_encode(c)

_munge_part(part) ==
    IF part = <<>> THEN part
    ELSE LET enc == Concat([i \in 1..Len(part) |-> qz_encode(part[i])])
         IN IF isidentifier(enc) THEN enc
            ELSE force_qz_encode(enc[1]) \o Tail(enc)

munge(s) ==
    IF isidentifier(s) THEN s
    ELSE LET parts == SplitDots(s)
         IN Join(<<".">>, [i \in 1..Len(parts) |-> _munge_part(parts[i])])

\* the characters a Quotez name is made of, after its first
QuotezChars == Digits \cup Upper \cup {"h", "x"}

\* FIND_QUOTEZ.match(s): the length of the match of
\* Qz([0-9A-Z][0-9A-Zhx]*?)_ at the start of s, 0 when there is none.  The
\* name cannot hold the closing _, so the lazy match ends at the first _.
FIND_QUOTEZ(s) ==
    IF Len(s) >= 4 /\ s[1] = "Q" /\ s[2] = "z" /\ s[3] \in Digits \cup Upper
    THEN LET q == RunEnd(s, 3, QuotezChars)
         IN IF q < Len(s) /\ s[q + 1] = "_" THEN q + 1 ELSE 0
    ELSE 0

\* the decoder that knows the short names and the Unicode names only
_qz_decode_names(match) ==
    LET name == SubSeq(match, 3, Len(match) - 1)
    IN IF \E c \in DOMAIN TO_NAME : TO_NAME[c] = name
       THEN <<CHOOSE c \in DOMAIN TO_NAME : TO_NAME[c] = name>>
       ELSE IF \E c \in DOMAIN UNICODE_NAME : UNICODE_NAME[c] = name
       THEN <<CHOOSE c \in DOMAIN UNICODE_NAME : UNICODE_NAME[c] = name>>
       ELSE match

\* _qz_decode(match): LOOKUP_NAME is TO_NAME read backwards,
\* unicodedata.lookup is UNICODE_NAME read backwards and chr(int(name, 16))
\* is ORDINAL read backwards, for the names the model can spell; a name that
\* none of them knows leaves the match as it is
_qz_decode(match) ==
    LET name == SubSeq(match, 3, Len(match) - 1)
    IN IF \E c \in DOMAIN TO_NAME : TO_NAME[c] = name
       THEN <<CHOOSE c \in DOMAIN TO_NAME : TO_NAME[c] = name>>
       ELSE IF \E c \in DOMAIN UNICODE_NAME : UNICODE_NAME[c] = name
       THEN <<CHOOSE c \in DOMAIN UNICODE_NAME : UNICODE_NAME[c] = name>>
       ELSE IF StartsWith(name, <<"0", "X">>)
               /\ \E c \in DOMAIN ORDINAL : ORDINAL[c] = name
       THEN <<CHOOSE c \in DOMAIN ORDINAL : ORDINAL[c] = name>>
       ELSE match

\* FIND_QUOTEZ.sub(_qz_decode, s)
RECURSIVE demunge(_)
demunge(s) ==
    IF s = <<>> THEN <<>>
    ELSE LET e == FIND_QUOTEZ(s)
         IN IF e > 0 THEN _qz_decode(SubSeq(s, 1, e)) \o demunge(SubSeq(s, e + 1, Len(s)))
            ELSE <<Head(s)>> \o demunge(Tail(s))

(***************************************************************************)
(* Forms.  Every parsed object is a record [k, s, e]: k its Python type,   *)
(* s its text, e its elements.                                              *)
(***************************************************************************)
Str(s) == [k |-> "str", s |-> s, e |-> <<>>]
Num(digits) == [k |-> "int", s |-> digits, e |-> <<>>]
Tuple(elements) == [k |-> "tuple", s |-> <<>>, e |-> elements]
\* reader._Unquote(target, value)
_Unquote(target, value) == [k |-> "_Unquote", s |-> target, e |-> <<value>>]
\* reader.Comment(token)
Comment(token) == [k |-> "Comment", s |-> token, e |-> <<>>]
\* reader.Kwarg(k, v)
Kwarg(key, v) == [k |-> "Kwarg", s |-> key, e |-> <<v>>]
\* a Python object that is none of the above: the value of fn(*args) or of an
\* eval, known only by the call that made it
Object(fn, args) == [k |-> "object", s |-> fn, e |-> args]

\* compiler.is_node: a non-empty tuple
is_node(x) == x.k = "tuple" /\ x.e /= <<>>
\* compiler.is_str
is_str(x) == x.k = "str"

quote == <<"q","u","o","t","e">>
__import__ == <<"_","_","i","m","p","o","r","t","_","_">>
__main__ == <<"_","_","m","a","i","n","_","_">>
builtins == <<"b","u","i","l","t","i","n","s">>
\* compiler.MACROS
MACROS == <<"_","m","a","c","r","o","_">>
\* compiler.MAYBE
MAYBE == <<".",".","Q","z","M","a","y","b","e","_",".">>
PositionalTarget == <<":", "?">>
SpliceTarget == <<":", "*">>

\* re.match(r"_Qz[a-z2-7]+__", symbol)
IsBase32(c) == c \in Lower \cup {"2","3","4","5","6","7"} \/ IsHash(c)
MatchesGensymPrefix(s) ==
    /\ At(s, 0, <<"_", "Q", "z">>)
    /\ \E e \in 4..Len(s) :
          /\ \A i \in 4..e : IsBase32(s[i])
          /\ At(s, e, <<"_", "_">>)

is_qualifiable(symbol) ==
    /\ symbol \notin {quote, __import__}
    /\ ~_iskeyword(symbol)
    /\ ~MatchesGensymPrefix(symbol)
    /\ \A i \in 1..Len(SplitDots(symbol)) : isidentifier(SplitDots(symbol)[i])

\* ast.literal_eval(s) gives a str, for the texts the model makes: one
\* quoted string in parentheses, whose only escape is \n
IsParenthesizedString(s, q) ==
    /\ Len(s) >= 4
    /\ At(s, 0, <<"(", q>>)
    /\ At(s, Len(s) - 2, <<q, ")">>)
    /\ \A i \in 3..(Len(s) - 2) :
          /\ s[i] \notin {q, "\n"}
          /\ s[i] = "\\" => i < Len(s) - 2 /\ s[i+1] = "n"

\* reader.is_lissp_unicode
is_lissp_unicode(x) ==
    /\ is_str(x)
    /\ IsParenthesizedString(x.s, "'") \/ IsParenthesizedString(x.s, "\"")

\* dir(builtins), the names the model's sources can spell
BuiltinNames == {<<"p","r","i","n","t">>, <<"i","d">>}


(***************************************************************************)
(* The environment: Compiler.env, a module's namespace.  name holds the    *)
(* value of its "__name__" key (no element: the key is missing), macros    *)
(* the attribute names of its "_macro_" object (has_macros: the key is     *)
(* there), globals its other keys.                                          *)
(***************************************************************************)
Env(name, has_macros, macros, globals) ==
    [name |-> name, has_macros |-> has_macros, macros |-> macros, globals |-> globals]

\* env.get("__name__", "__main__")
EnvName(e) == IF e.name = <<>> THEN __main__ ELSE e.name[1]

\* key in env
InEnv(key, e) ==
    \/ key \in e.globals
    \/ key = MACROS /\ e.has_macros
    \/ key = <<"_","_","n","a","m","e","_","_">> /\ e.name /= <<>>

\* hasattr(env[MACROS], name), False when env has no MACROS
HasMacro(e, name) == e.has_macros /\ name \in e.macros

(***************************************************************************)
(* Parser: templates, qualification and gensyms.                            *)
(***************************************************************************)
\* a qualify that looks for a builtin before it looks for a macro
qualify_builtin_first(symbol, invocation) ==
    IF ~is_qualifiable(symbol) THEN symbol
    ELSE IF symbol \in BuiltinNames /\ ~InEnv(SplitDots(symbol)[1], env)
    THEN builtins \o <<".", ".">> \o symbol
    ELSE IF invocation /\ HasMacro(env, symbol)
    THEN qualname \o <<".", ".">> \o MACROS \o <<".">> \o symbol
    ELSE IF invocation /\ ~Contains(symbol, <<".">>)
    THEN qualname \o MAYBE \o symbol
    ELSE qualname \o <<".", ".">> \o symbol

\* Parser.qualify
qualify(symbol, invocation) ==
    IF ~is_qualifiable(symbol) THEN symbol
    ELSE IF invocation /\ HasMacro(env, symbol)
    THEN qualname \o <<".", ".">> \o MACROS \o <<".">> \o symbol
    ELSE IF symbol \in BuiltinNames /\ ~InEnv(SplitDots(symbol)[1], env)
    THEN builtins \o <<".", ".">> \o symbol
    ELSE IF invocation /\ ~Contains(symbol, <<".">>)
    THEN qualname \o MAYBE \o symbol
    ELSE qualname \o <<".", ".">> \o symbol

\* the splice that _template_form refuses: "splice not in tuple"
IsBareSplice(x) == x.k = "_Unquote" /\ x.s /= PositionalTarget

\* _template_form whose _template_forms never clears invocation
RECURSIVE _template_form_all_invocations(_)
_template_form_all_invocations(x) ==
    IF is_lissp_unicode(x) THEN Tuple(<<Str(quote), x>>)
    ELSE IF is_node(x)
    THEN LET pair(i) ==
                 LET y == x.e[i]
                 IN IF is_str(y) /\ ~StartsWith(y.s, <<":">>)
                    THEN <<Str(PositionalTarget),
                           Tuple(<<Str(quote), Str(qualify(y.s, TRUE))>>)>>
                    ELSE IF y.k = "_Unquote" THEN <<Str(y.s), y.e[1]>>
                    ELSE IF is_node(y)
                    THEN <<Str(PositionalTarget), _template_form_all_invocations(y)>>
                    ELSE <<Str(PositionalTarget), y>>
         IN Tuple(<<Str(<<>>), Str(<<":">>)>>
                  \o Concat([i \in 1..Len(x.e) |-> pair(i)])
                  \o <<Str(PositionalTarget), Str(<<>>)>>)
    ELSE IF is_str(x) /\ ~StartsWith(x.s, <<":">>)
    THEN Tuple(<<Str(quote), Str(qualify(x.s, FALSE))>>)
    ELSE IF x.k = "_Unquote" THEN x.e[1]
    ELSE x

\* _template_form that leaves the tuples inside a tuple as they are
_template_form_flat(x) ==
    IF is_lissp_unicode(x) THEN Tuple(<<Str(quote), x>>)
    ELSE IF is_node(x)
    THEN LET pair(i) ==
                 LET y == x.e[i]
                 IN IF is_str(y) /\ ~StartsWith(y.s, <<":">>)
                    THEN <<Str(PositionalTarget),
                           Tuple(<<Str(quote), Str(qualify(y.s, i = 1))>>)>>
                    ELSE IF y.k = "_Unquote" THEN <<Str(y.s), y.e[1]>>
                    ELSE <<Str(PositionalTarget), y>>
         IN Tuple(<<Str(<<>>), Str(<<":">>)>>
                  \o Concat([i \in 1..Len(x.e) |-> pair(i)])
                  \o <<Str(PositionalTarget), Str(<<>>)>>)
    ELSE IF is_str(x) /\ ~StartsWith(x.s, <<":">>)
    THEN Tuple(<<Str(quote), Str(qualify(x.s, FALSE))>>)
    ELSE IF x.k = "_Unquote" THEN x.e[1]
    ELSE x

\* Parser._template_form with Parser._template_forms, for a form that is no
\* bare splice
RECURSIVE _template_form(_)
_template_form(x) ==
    IF is_lissp_unicode(x) THEN Tuple(<<Str(quote), x>>)
    ELSE IF is_node(x)
    THEN LET pair(i) ==
                 LET y == x.e[i]
                 IN IF is_str(y) /\ ~StartsWith(y.s, <<":">>)
                    THEN <<Str(PositionalTarget),
                           Tuple(<<Str(quote), Str(qualify(y.s, i = 1))>>)>>
                    ELSE IF y.k = "_Unquote" THEN <<Str(y.s), y.e[1]>>
                    ELSE IF is_node(y) THEN <<Str(PositionalTarget), _template_form(y)>>
                    ELSE <<Str(PositionalTarget), y>>
         IN Tuple(<<Str(<<>>), Str(<<":">>)>>
                  \o Concat([i \in 1..Len(x.e) |-> pair(i)])
                  \o <<Str(PositionalTarget), Str(<<>>)>>)
    ELSE IF is_str(x) /\ ~StartsWith(x.s, <<":">>)
    THEN Tuple(<<Str(quote), Str(qualify(x.s, FALSE))>>)
    ELSE IF x.k = "_Unquote" THEN x.e[1]
    ELSE x

\* Parser._get_counter raises "gensym outside of template"
GensymOutside(ctx) ==
    ctx = <<>> \/ Count(ctx, Backtick) - Count(ctx, ",") < 0

\* Parser._get_counter
_get_counter(ctx, cnt) ==
    IF Last(ctx) = Backtick THEN Last(cnt)
    ELSE cnt[Count(ctx, Backtick) - Count(ctx, ",") + 1]

\* c.to_bytes(1 + c.bit_length() // 8, "big")
to_bytes(c) == IF c < 128 THEN <<c>> ELSE <<c \div 256, c % 256>>

\* b32encode(blk.digest()).rstrip(b"=").lower().decode(), where blk has been
\* fed the bytes fed: the hash is one element, a text the bytes determine
\* and that differs when they differ
Base32Digest(fed) == ToString(fed)

\* the prefix Parser._gensym makes from the hasher and the template number c
GensymPrefix(hasher, c) ==
    <<"_", "Q", "z", Base32Digest(hasher \o to_bytes(c)), "_", "_">>

\* Parser._gensym, for a str form and for a tuple without the marker (whose
\* text is its repr, one element here)
_gensym(x, ctx, cnt) ==
    LET prefix == GensymPrefix(blake, _get_counter(ctx, cnt))
        marker == munge(<<"$">>)
        text == IF is_str(x) THEN x.s ELSE <<ToString(x)>>
    IN IF ~Contains(text, marker) THEN Str(prefix \o text)
       ELSE Str(Replace(text, marker, prefix))

\* Parser.escape: re.sub of a backslash and the character after it
RECURSIVE escape(_)
escape(atom) ==
    IF atom = <<>> THEN <<>>
    ELSE IF atom[1] = "\\" /\ Len(atom) >= 2 /\ atom[2] /= "\n"
    THEN (IF atom[2] \in {".", ":"} THEN force_qz_encode(atom[2]) ELSE <<atom[2]>>)
         \o escape(SubSeq(atom, 3, Len(atom)))
    ELSE <<atom[1]>> \o escape(Tail(atom))

\* what ast.literal_eval reads: the text without the blanks around it
RECURSIVE strip(_)
strip(v) ==
    IF v /= <<>> /\ v[1] \in {" ", "\t"} THEN strip(Tail(v))
    ELSE IF v /= <<>> /\ v[Len(v)] \in {" ", "\t"} THEN strip(SubSeq(v, 1, Len(v) - 1))
    ELSE v

IsDecimal(v) ==
    /\ v /= <<>>
    /\ \A i \in 1..Len(v) : v[i] \in Digits
    /\ (v[1] /= "0" \/ \A i \in 1..Len(v) : v[i] = "0")

\* ast.literal_eval accepts the text and gives an object without
\* __contains__: a decimal integer with at most one sign (the only such
\* literal the model's sources can spell)
IsNumber(v) ==
    LET t == strip(v) IN
    /\ t /= <<>>
    /\ IsDecimal(IF t[1] \in {"+", "-"} THEN Tail(t) ELSE t)

\* the integer ast.literal_eval gives, as its repr
literal_eval(v) ==
    LET t == strip(v)
        d == IF t[1] \in {"+", "-"} THEN Tail(t) ELSE t
        z == IF d[1] = "0" THEN <<"0">> ELSE d
    IN IF t[1] = "-" /\ z /= <<"0">> THEN <<"-">> \o z ELSE z

\* the object ast.literal_eval gives for three dots
Ellipsis == Object(<<"E","l","l","i","p","s","i","s">>, <<>>)

\* Parser.bare
bare(v) ==
    IF ~StartsWith(v, <<"\\">>) /\ IsNumber(escape(v))
    THEN Num(literal_eval(escape(v)))
    ELSE IF ~StartsWith(v, <<"\\">>) /\ strip(escape(v)) = <<".", ".", ".">>
    THEN Ellipsis
    ELSE Str(munge(escape(v)))

\* Parser._unicode, for a token without backslashes: pformat of the string,
\* which quotes with " a string that holds a ', in parentheses
_unicode(v) ==
    LET q == IF Count(v, "'") > 0 THEN "\"" ELSE "'"
    IN Str(<<"(", q>>
           \o Replace(SubSeq(v, 2, Len(v) - 1), <<"\n">>, <<"\\", "n">>)
           \o <<q, ")">>)

\* Parser._fragment
_fragment(v) == Str(Replace(SubSeq(v, 2, Len(v) - 1), <<"|", "|">>, <<"|">>))

\* arity in Parser._tag: the number of "#" in the tag
TagArity(tag) == Count(tag, "#")

\* Parser._label
_label(arity, tag) ==
    LET label == munge(escape(SubSeq(tag, 1, Len(tag) - arity)))
    IN IF At(label, 0, <<".">>) THEN force_qz_encode(".") \o Tail(label) ELSE label

\* the name Parser._local looks up in env[MACROS]
LocalTagName(label) ==
    Replace(label, <<".">>, force_qz_encode(".")) \o munge(<<"#">>)


(***************************************************************************)
(* The Parser's call stack.  A frame is an activation that waits for forms *)
(* from a nested self._parse():                                             *)
(*   kind "open": Parser._open, collecting the forms of a tuple in args;   *)
(*   kind "pull": Parser._pull(v, p), called by the handler of token tok;  *)
(*   kind "tag":  Parser._tag, collecting the arguments after the first.   *)
(* d is len(self.depth) when the activation began.                          *)
(***************************************************************************)
Frame(kind, tok, v, p, d, args, arity) ==
    [kind |-> kind, tok |-> tok, v |-> v, p |-> p, d |-> d, args |-> args,
     arity |-> arity]

NoError == [type |-> "", msg |-> "", v |-> <<>>, pos |-> 0]

\* what is left of context and counters once an exception has left every
\* frame: the finally clauses of gensym_context and unquote_context of the
\* frames entered, innermost first
RECURSIVE Unwound(_, _, _)
Unwound(fr, ctx, cnt) ==
    IF fr = <<>> THEN [context |-> ctx, counters |-> cnt]
    ELSE IF Last(fr).kind = "pull" /\ Last(fr).tok = "template"
    THEN Unwound(Front(fr), Front(ctx), Front(cnt))
    ELSE IF Last(fr).kind = "pull" /\ Last(fr).tok = "unquote"
    THEN Unwound(Front(fr), Front(ctx), cnt)
    ELSE Unwound(Front(fr), ctx, cnt)

\* the parser after raise type(msg, self.position(pos)) under the frames fr
Raise(type, msg, v, pos, fr, ctx, cnt, ev) ==
    [frames |-> <<>>,
     context |-> Unwound(fr, ctx, cnt).context,
     counters |-> Unwound(fr, ctx, cnt).counters,
     err |-> [type |-> type, msg |-> msg, v |-> v, pos |-> pos],
     yield |-> <<>>, made |-> ev]

\* the modules import_module finds, and their attributes
Importable == (builtins :> {<<"f","l","o","a","t">>})

\* label.split("..", 1)
ModuleOf(label) ==
    SubSeq(label, 1, (CHOOSE p \in 0..Len(label) :
                         /\ At(label, p, <<".", ".">>)
                         /\ \A q \in 0..(p-1) : ~At(label, q, <<".", ".">>)))
FunctionOf(label) == SubSeq(label, Len(ModuleOf(label)) + 3, Len(label))

\* Parser._fully_qualified(label) raises; its attribute chain is one name
FullyQualifiedError(label) ==
    IF ModuleOf(label) \notin DOMAIN Importable THEN "ModuleNotFoundError"
    ELSE IF FunctionOf(label) \notin Importable[ModuleOf(label)] THEN "AttributeError"
    ELSE ""

\* the offset after the backtick of the innermost template being read under
\* the frames fr (0: none)
RECURSIVE InnermostTemplate(_)
InnermostTemplate(fr) ==
    IF fr = <<>> THEN 0
    ELSE IF Last(fr).kind = "pull" /\ Last(fr).tok = "template" THEN Last(fr).p
    ELSE InnermostTemplate(Front(fr))

\* a form x that self._parse() produced reaches the activation that waits
\* for it, at token end offset pos with dep open parens; the value is the
\* parser afterwards: frames, context, counters, the exception raised (err)
\* and the form the outermost generator yields to the Parser's consumer;
\* made lists the gensyms made on the way, after those of ev
RECURSIVE Deliver(_, _, _, _, _, _, _)
\* the tail of Parser._tag: the arguments are complete, the tag is called
TagCall(f, args, rest, ctx, cnt, pos, dep, ev) ==
    LET label == _label(f.arity, f.v)
    IN IF Contains(label, <<".", ".">>)
       THEN IF FullyQualifiedError(label) /= ""
            THEN Raise(FullyQualifiedError(label), "import", label, pos, rest, ctx, cnt, ev)
            ELSE Deliver(Object(label, args), rest, ctx, cnt, pos, dep, ev)
       ELSE IF HasMacro(env, LocalTagName(label))
            THEN Deliver(Object(LocalTagName(label), args), rest, ctx, cnt, pos, dep, ev)
            ELSE Raise("SyntaxError", "unknown tag", label, pos, rest, ctx, cnt, ev)

\* the rest of the handler that called Parser._pull, once _pull returned x
Pulled(f, x, fr, ctx, cnt, pos, dep, ev) ==
    LET rest == Front(fr)
    IN CASE f.tok = "quote" ->
              Deliver(Tuple(<<Str(quote), x>>), rest, ctx, cnt, pos, dep, ev)
         [] f.tok = "template" ->
              IF IsBareSplice(x)
              THEN Raise("SyntaxError", "splice not in tuple", f.v, pos, fr, ctx, cnt,
                         Append(ev, [op |-> "template", form |-> x, raised |-> TRUE,
                                     result |-> x]))
              ELSE Deliver(_template_form(x), rest, Front(ctx), Front(cnt), pos, dep,
                           Append(ev, [op |-> "template", form |-> x, raised |-> FALSE,
                                       result |-> _template_form(x)]))
         [] f.tok = "unquote" ->
              Deliver(_Unquote(IF f.v = <<",", "@">> THEN SpliceTarget
                               ELSE PositionalTarget, x),
                      rest, Front(ctx), cnt, pos, dep, ev)
         [] f.tok = "inject" ->
              Deliver(Object(<<"e","v","a","l">>, <<x>>), rest, ctx, cnt, pos, dep, ev)
         [] f.tok = "discard" ->
              [frames |-> rest, context |-> ctx, counters |-> cnt,
               err |-> NoError, yield |-> <<>>, made |-> ev]
         [] f.tok = "gensym" ->
              IF GensymOutside(ctx)
              THEN Raise("SyntaxError", "gensym outside of template", f.v, pos,
                         rest, ctx, cnt, ev)
              ELSE IF x.k \in {"int", "Comment", "object"}
              THEN Raise("TypeError", "argument is not iterable", f.v, pos,
                         rest, ctx, cnt, ev)
              ELSE IF ~is_str(x) /\ \E i \in 1..Len(x.e) : x.e[i] = Str(munge(<<"$">>))
              THEN Raise("AttributeError", "no attribute replace", f.v, pos,
                         rest, ctx, cnt, ev)
              ELSE Deliver(_gensym(x, ctx, cnt), rest, ctx, cnt, pos, dep,
                           Append(ev, [op |-> "gensym",
                                       template |-> InnermostTemplate(rest),
                                       direct |-> Last(ctx) = Backtick,
                                       c |-> _get_counter(ctx, cnt),
                                       arg |-> x,
                                       symbol |-> _gensym(x, ctx, cnt).s]))
         [] f.tok = "tag" ->
              IF TagArity(f.v) = 1
              THEN TagCall(Frame("tag", "tag", f.v, pos, dep, <<>>, 1), <<x>>,
                           rest, ctx, cnt, pos, dep, ev)
              ELSE [frames |-> Append(rest, Frame("tag", "tag", f.v, pos, dep, <<x>>,
                                                  TagArity(f.v))),
                    context |-> ctx, counters |-> cnt, err |-> NoError,
                    yield |-> <<>>, made |-> ev]
         [] OTHER ->  \* kwarg, stararg
              Deliver(Kwarg(Front(f.v), x), rest, ctx, cnt, pos, dep, ev)

Deliver(x, fr, ctx, cnt, pos, dep, ev) ==
    IF fr = <<>>
    THEN \* Parser.__next__: the outermost generator, without comments
         [frames |-> fr, context |-> ctx, counters |-> cnt, err |-> NoError,
          yield |-> IF x.k = "Comment" THEN <<>> ELSE <<x>>, made |-> ev]
    ELSE LET f == Last(fr)
         IN CASE f.kind = "open" ->
                   [frames |-> IF x.k = "Comment" THEN fr
                               ELSE Append(Front(fr), [f EXCEPT !.args = Append(@, x)]),
                    context |-> ctx, counters |-> cnt, err |-> NoError,
                    yield |-> <<>>, made |-> ev]
              [] f.kind = "tag" ->
                   IF Len(f.args) + 1 = f.arity
                   THEN TagCall(f, Append(f.args, x), Front(fr), ctx, cnt, pos, dep, ev)
                   ELSE [frames |-> Append(Front(fr), [f EXCEPT !.args = Append(@, x)]),
                         context |-> ctx, counters |-> cnt, err |-> NoError,
                         yield |-> <<>>, made |-> ev]
              [] OTHER -> Pulled(f, x, fr, ctx, cnt, pos, dep, ev)

\* Exhausted without the comparison of depths: a missing argument is always
\* taken for incomplete input
ExhaustedSoft(fr, ctx, cnt, pos, dep) ==
    IF fr = <<>>
    THEN [frames |-> fr, context |-> ctx, counters |-> cnt, err |-> NoError,
          yield |-> <<>>, made |-> <<>>]
    ELSE LET f == Last(fr)
         IN CASE f.kind = "open" ->
                   Deliver(Tuple(f.args), Front(fr), ctx, cnt, pos, dep, <<>>)
              [] f.kind = "tag" ->
                   Raise("SoftSyntaxError", "reader tag missing argument", f.v, f.p,
                         Front(fr), ctx, cnt, <<>>)
              [] OTHER ->
                   Raise("SoftSyntaxError", "tag missing argument", f.v, f.p, fr, ctx,
                         cnt, <<>>)

\* the nested self._parse() of the innermost activation returned without a
\* form (a close paren, or the end of the tokens) with dep parens open
Exhausted(fr, ctx, cnt, pos, dep) ==
    IF fr = <<>>
    THEN [frames |-> fr, context |-> ctx, counters |-> cnt, err |-> NoError,
          yield |-> <<>>, made |-> <<>>]
    ELSE LET f == Last(fr)
             soft == IF dep = f.d THEN "SoftSyntaxError" ELSE "SyntaxError"
         IN CASE f.kind = "open" ->
                   Deliver(Tuple(f.args), Front(fr), ctx, cnt, pos, dep, <<>>)
              [] f.kind = "tag" ->
                   Raise(soft, "reader tag missing argument", f.v, f.p,
                         Front(fr), ctx, cnt, <<>>)
              [] OTHER ->
                   Raise(soft, "tag missing argument", f.v, f.p, fr, ctx, cnt, <<>>)


(***************************************************************************)
(* Parser._parse: the handler of each token kind.  Each takes the token    *)
(* (k, v, pos) pulled from the Lexer and gives the parser afterwards:      *)
(* depth, context, counters, frames, the Lissp's template count, the       *)
(* exception raised, the form yielded to the consumer, the gensyms made.   *)
(***************************************************************************)
Outcome(R, dep, count) ==
    [depth |-> dep, count |-> count, frames |-> R.frames, context |-> R.context,
     counters |-> R.counters, err |-> R.err, yield |-> R.yield, made |-> R.made]

Continue(fr, ctx, cnt, dep, count) ==
    [depth |-> dep, count |-> count, frames |-> fr, context |-> ctx,
     counters |-> cnt, err |-> NoError, yield |-> <<>>, made |-> <<>>]

\* a handler that yields the atom x
_yield(x, tok) ==
    Outcome(Deliver(x, frames, context, counters, tok.pos, Len(depth), <<>>),
            depth, template_count[lissp])

\* a handler that raises at the current position
_raise(type, msg, tok) ==
    Outcome(Raise(type, msg, tok.v, tok.pos, frames, context, counters, <<>>),
            depth, template_count[lissp])

\* a handler that begins with self._pull(v)
_pull(tok) ==
    Continue(Append(frames, Frame("pull", tok.k, tok.v, tok.pos, Len(depth), <<>>, 0)),
             context, counters, depth, template_count[lissp])

\* _open that does not record the paren
_open_unrecorded(tok) ==
    Continue(Append(frames, Frame("open", "open", tok.v, tok.pos, Len(depth) + 1, <<>>, 0)),
             context, counters, depth, template_count[lissp])

\* Parser._open, up to its nested self._no_comment()
_open(tok) ==
    Continue(Append(frames, Frame("open", "open", tok.v, tok.pos, Len(depth) + 1, <<>>, 0)),
             context, counters, Append(depth, tok.pos), template_count[lissp])

\* _close raising the error a REPL would take for incomplete input
_close_soft(tok) ==
    IF depth = <<>>
    THEN _raise("SoftSyntaxError", "too many )s", tok)
    ELSE Outcome(Exhausted(frames, context, counters, tok.pos, Len(depth) - 1),
                 Front(depth), template_count[lissp])

\* return self._close(): Parser._close, then the generator returns
_close(tok) ==
    IF depth = <<>>
    THEN _raise("SyntaxError", "too many )s", tok)
    ELSE Outcome(Exhausted(frames, context, counters, tok.pos, Len(depth) - 1),
                 Front(depth), template_count[lissp])

\* template_count that forgets to count
Lissp_template_count_stuck(n) == n

\* Lissp.template_count
Lissp_template_count(n) == n + 1

\* Parser._template: gensym_context is entered, then self._pull(v)
_template(tok) ==
    Continue(Append(frames, Frame("pull", tok.k, tok.v, tok.pos, Len(depth), <<>>, 0)),
             Append(context, Backtick),
             Append(counters, Lissp_template_count(template_count[lissp])),
             depth, Lissp_template_count(template_count[lissp]))

\* _unquote whose context does not look for the template
_unquote_anywhere(tok) ==
    Continue(Append(frames, Frame("pull", tok.k, tok.v, tok.pos, Len(depth), <<>>, 0)),
             Append(context, ","), counters, depth, template_count[lissp])

\* Parser._unquote: unquote_context is entered, then self._pull(v, self._pos)
_unquote(tok) ==
    LET ctx == Append(context, ",")
    IN IF Count(ctx, ",") > Count(ctx, Backtick)
       THEN Outcome(Raise("SyntaxError", "unquote outside of template", tok.v, tok.pos,
                          frames, ctx, counters, <<>>),
                    depth, template_count[lissp])
       ELSE Continue(Append(frames, Frame("pull", tok.k, tok.v, tok.pos, Len(depth),
                                          <<>>, 0)),
                     ctx, counters, depth, template_count[lissp])

\* _check_depth without its check: an unclosed form is given up silently
_check_depth_unchecked(pos) ==
    Outcome([frames |-> <<>>, context |-> context, counters |-> counters,
             err |-> NoError, yield |-> <<>>, made |-> <<>>],
            <<>>, template_count[lissp])

\* the tokens are exhausted: self._check_depth(), then the generator returns
_check_depth(pos) ==
    IF depth /= <<>>
    THEN Outcome(Raise("SoftSyntaxError", "form missing a )", <<>>, Last(depth),
                       frames, context, counters, <<>>),
                 Front(depth), template_count[lissp])
    ELSE Outcome(Exhausted(frames, context, counters, pos, 0),
                 depth, template_count[lissp])


(***************************************************************************)
(* The Parser and its consumer as a state machine.  pc is "read" while the *)
(* consumer is inside next(parser), "compile" and "exec" while              *)
(* Compiler.compile works on the form it got, "done" once the parser       *)
(* raised StopIteration, "raised" once an exception reached the consumer.  *)
(***************************************************************************)
\* the Lissp instances
Readers == {"lissp1", "lissp2"}

\* the token next(self.tokens) gives
Tok == Token(code, lexer_pos)

\* for k, v, self._pos in self.tokens: gives a token of kind k
Pulls(k) == pc = "read" /\ lexer_pos < Len(code) /\ Tok.k = k

\* a finished read, for the record
ReadRecord(forms, e, ctx, cnt) ==
    [lissp |-> lissp, n |-> nreads[lissp], code |-> code, name |-> EnvName(env),
     out |-> forms, err |-> e, context |-> ctx, counters |-> cnt]

\* what R made (gensyms, templates), each with the Lissp, its read and the
\* read's text
Made(R, op) ==
    LET made == SelectSeq(R.made, LAMBDA e : e.op = op)
    IN [i \in 1..Len(made) |->
           made[i] @@ [lissp |-> lissp, n |-> nreads[lissp], code |-> code,
                       name |-> EnvName(env)]]

\* a Compiler.compile that takes every form from the reader before it
\* compiles the first, as "for i, form in enumerate(list(forms), 1)" would
for_form_in_list(m) == "read"

\* the consumer of the form the reader has just yielded: list() asks for the
\* next form (mode "reads"); for i, form in enumerate(forms, 1) of
\* Compiler.compile runs its body on the form (mode "compile")
for_form_in(m) == IF m = "compile" THEN "compile" ELSE "read"

\* the parser has become R; what it raised or yielded reaches the consumer:
\* list(lissp.reads(code)) in mode "reads", the loop of Compiler.compile in
\* mode "compile"
Installed(R, pos) ==
    /\ lexer_pos' = pos
    /\ parser_pos' = pos
    /\ depth' = R.depth
    /\ context' = R.context
    /\ counters' = R.counters
    /\ frames' = R.frames
    /\ template_count' = [template_count EXCEPT ![lissp] = R.count]
    /\ err' = R.err
    /\ gensyms' = gensyms \o Made(R, "gensym")
    /\ templates' = templates \o Made(R, "template")
    /\ IF R.err.type /= ""
       THEN /\ pc' = "raised"
            /\ reads_done' = Append(reads_done,
                                    ReadRecord(out, R.err, R.context, R.counters))
            /\ UNCHANGED <<out, form, log>>
       ELSE IF R.yield = <<>>
       THEN UNCHANGED <<pc, out, form, reads_done, log>>
       ELSE IF mode = "reads"
       THEN /\ out' = Append(out, R.yield[1])
            /\ pc' = for_form_in(mode)
            /\ UNCHANGED <<form, reads_done, log>>
       ELSE /\ out' = Append(out, R.yield[1])
            /\ form' = R.yield[1]
            /\ pc' = for_form_in(mode)
            /\ log' = Append(log, [op |-> "read", i |-> Len(out) + 1, env |-> env,
                                   form |-> R.yield[1]])
            /\ UNCHANGED reads_done
    /\ UNCHANGED <<code, lissp, qualname, blake, nreads, env, mode, result>>
    /\ UNCHANGED <<contextVars, threadVars, flagVars>>

\* the handler's outcome H is computed, then installed
Install(H, pos) == \E R \in {H} : Installed(R, pos)

WhitespaceToken ==
    /\ Pulls("whitespace")
    /\ \E tok \in {Tok} : Install(Continue(frames, context, counters, depth, template_count[lissp]), tok.pos)

CommentToken ==
    /\ Pulls("comment")
    /\ \E tok \in {Tok} : \E x \in {Comment(tok.v)} :
          Install(_yield(x, tok), tok.pos)

Badspace ==
    /\ Pulls("badspace")
    /\ \E tok \in {Tok} : Install(_raise("SyntaxError", "is not whitespace in Lissp", tok), tok.pos)

Open ==
    /\ Pulls("open")
    /\ \E tok \in {Tok} : Install(_open(tok), tok.pos)

Close ==
    /\ Pulls("close")
    /\ \E tok \in {Tok} : Install(_close(tok), tok.pos)

Template ==
    /\ Pulls("template")
    /\ \E tok \in {Tok} : Install(_template(tok), tok.pos)

Unquote ==
    /\ Pulls("unquote")
    /\ \E tok \in {Tok} : Install(_unquote(tok), tok.pos)

Quote ==
    /\ Pulls("quote")
    /\ \E tok \in {Tok} : Install(_pull(tok), tok.pos)

Inject ==
    /\ Pulls("inject")
    /\ \E tok \in {Tok} : Install(_pull(tok), tok.pos)

Discard ==
    /\ Pulls("discard")
    /\ \E tok \in {Tok} : Install(_pull(tok), tok.pos)

Gensym ==
    /\ Pulls("gensym")
    /\ \E tok \in {Tok} : Install(_pull(tok), tok.pos)

Tag ==
    /\ Pulls("tag")
    /\ \E tok \in {Tok} : Install(_pull(tok), tok.pos)

KwargToken ==
    /\ (Pulls("kwarg") \/ Pulls("stararg"))
    /\ \E tok \in {Tok} : Install(_pull(tok), tok.pos)

Unicode ==
    /\ Pulls("unicode")
    /\ \E tok \in {Tok} : \E x \in {_unicode(tok.v)} :
          Install(_yield(x, tok), tok.pos)

Fragment ==
    /\ Pulls("fragment")
    /\ \E tok \in {Tok} : \E x \in {_fragment(tok.v)} :
          Install(_yield(x, tok), tok.pos)

ContinueToken ==
    /\ Pulls("continue")
    /\ \E tok \in {Tok} : Install(_raise("SoftSyntaxError", "Incomplete string token.", tok), tok.pos)

Badfrag ==
    /\ Pulls("badfrag")
    /\ \E tok \in {Tok} : Install(_raise("SyntaxError", "unpaired |", tok), tok.pos)

Control ==
    /\ Pulls("control")
    /\ \E tok \in {Tok} : \E x \in {Str(escape(tok.v))} :
          Install(_yield(x, tok), tok.pos)

Bare ==
    /\ Pulls("bare")
    /\ \E tok \in {Tok} : \E x \in {bare(tok.v)} :
          Install(_yield(x, tok), tok.pos)

ErrorToken ==
    /\ Pulls("error")
    /\ \E tok \in {Tok} : Install(_raise("SyntaxError", "can't read this", tok), tok.pos)

\* the tokens are exhausted while activations wait: the for loop of the
\* innermost self._parse() ends
EndOfTokens ==
    /\ pc = "read"
    /\ lexer_pos = Len(code)
    /\ ~(depth = <<>> /\ frames = <<>>)
    /\ Install(_check_depth(parser_pos), parser_pos)

\* the tokens are exhausted and no activation waits: StopIteration reaches
\* the consumer
StopIteration ==
    /\ pc = "read"
    /\ lexer_pos = Len(code)
    /\ depth = <<>> /\ frames = <<>>
    /\ pc' = "done"
    /\ reads_done' = Append(reads_done,
                            ReadRecord(out, NoError, context, counters))
    /\ UNCHANGED <<code, lexer_pos, parser_pos, depth, context, counters, frames, out,
                   err, lissp, qualname, blake, template_count, nreads, gensyms,
                   templates>>
    /\ UNCHANGED <<compilerVars, contextVars, threadVars, flagVars>>


(***************************************************************************)
(* Construction.                                                            *)
(***************************************************************************)
\* Compiler.new_env(name): a fresh module namespace
new_env(name) == Env(<<name>>, FALSE, {}, {})

\* Compiler.compile is not running
IdleCompiler ==
    /\ mode = "reads" /\ form = <<>> /\ result = <<>> /\ log = <<>>
    /\ error = <<>> /\ abort = <<>> /\ warnings = <<>>

\* no macro_context block was entered
IdleContext == ENV = <<>> /\ blocks = <<>> /\ exited = <<>>

\* no thread calls template_count
IdleThreads ==
    tpc = <<>> /\ treg = <<>> /\ treader = <<>> /\ returned = <<>> /\ overlapped = {}

\* Lissp.__init__ of every instance: nothing is being read
NoRead ==
    /\ code = <<>>
    /\ lexer_pos = 0
    /\ parser_pos = 0
    /\ depth = <<>>
    /\ context = <<>>
    /\ counters = <<>>
    /\ frames = <<>>
    /\ out = <<>>
    /\ err = NoError
    /\ pc = "new"
    /\ lissp = "lissp1"
    /\ qualname = __main__
    /\ blake = <<>>
    /\ template_count = [r \in Readers |-> 0]
    /\ nreads = [r \in Readers |-> 0]
    /\ gensyms = <<>>
    /\ templates = <<>>
    /\ reads_done = <<>>
    /\ env = new_env(__main__)

\* Parser.__init__ with the hasher salted by how many reads came before
blake_update_salted(c, e) == c \o EnvName(e) \o <<ToString(Len(reads_done))>>

\* Parser.__init__: what the hasher self.blake is fed
blake_update(c, e) == c \o EnvName(e)

\* Lissp.reads(c) on the instance l, whose environment is e, for a consumer
\* in mode m: Lexer.__init__ and Parser.__init__
Reads(l, c, e, m) ==
    /\ pc \in {"new", "done", "raised"}
    /\ code' = c
    /\ lexer_pos' = 0
    /\ parser_pos' = 0
    /\ depth' = <<>>
    /\ context' = <<>>
    /\ counters' = <<>>
    /\ frames' = <<>>
    /\ out' = <<>>
    /\ err' = NoError
    /\ pc' = "read"
    /\ lissp' = l
    /\ blake' = blake_update(c, e)
    /\ nreads' = [nreads EXCEPT ![l] = @ + 1]
    /\ env' = e
    /\ mode' = m
    /\ UNCHANGED <<qualname, template_count, gensyms, templates, reads_done>>
    /\ UNCHANGED <<form, result, log>>
    /\ UNCHANGED <<contextVars, threadVars, flagVars>>

\* the texts of at most n pieces of S
RECURSIVE Texts(_, _)
Texts(S, n) ==
    IF n = 0 THEN {<<>>}
    ELSE Texts(S, n - 1) \cup {t \o p : t \in Texts(S, n - 1), p \in S}

(***************************************************************************)
(* Reading sources of parentheses, whitespace and the number 1.            *)
(***************************************************************************)
MaxParens == 4
ParenAlphabet == {<<"(">>, <<")">>, <<" ">>, <<"\n">>, <<"1">>}

InitBalance == NoRead /\ IdleCompiler /\ IdleContext /\ IdleThreads

\* list(Lissp().reads(c))
ReadsParens ==
    /\ pc = "new"
    /\ \E c \in Texts(ParenAlphabet, MaxParens) : Reads("lissp1", c, new_env(__main__), "reads")

\* next(parser), for the tokens of these sources
ParseParens ==
    \/ WhitespaceToken
    \/ Open
    \/ Close
    \/ Bare
    \/ EndOfTokens
    \/ StopIteration

NextBalance == ReadsParens \/ ParseParens

\* list(lissp.reads(code)) keeps calling next(parser) until it raises
SpecBalance == InitBalance /\ [][NextBalance]_vars /\ WF_vars(ParseParens)


\* the parens the text s leaves open (negative: more ")" than "(")
Opens(s) == Count(s, "(") - Count(s, ")")

\* every ")" of s closes an earlier "(" and none is left open
Balanced(s) ==
    /\ Opens(s) = 0
    /\ \A p \in 0..Len(s) : Opens(SubSeq(s, 1, p)) >= 0

\* the top-level forms the first p characters of a text of ParenAlphabet
\* complete: the parens that close a top-level tuple, and the numbers (runs
\* of 1) outside every tuple that have ended
TopLevelForms(s, p) ==
    Cardinality({i \in 1..p :
        \/ s[i] = ")" /\ Opens(SubSeq(s, 1, i)) = 0
        \/ /\ s[i] = "1"
           /\ Opens(SubSeq(s, 1, i)) = 0
           /\ i = Len(s) \/ s[i+1] /= "1"})

ParenErrors == {"too many )s", "form missing a )"}

C6State ==
    /\ pc /= "new" /\ Balanced(code) =>
          /\ pc \in {"read", "done"}
          /\ err = NoError
          /\ pc = "done" => Len(out) = TopLevelForms(code, Len(code))
    /\ pc /= "new" /\ Opens(code) /= 0 =>
          /\ pc /= "done"
          /\ pc = "raised" =>
                /\ err.type \in {"SyntaxError", "SoftSyntaxError"}
                /\ err.msg \in ParenErrors

\* C6: a source of parens, spaces, newlines and 1s whose parens balance is
\* read to its end without error, giving its top-level forms; one with more
\* "(" than ")" or the reverse ends in one of the two paren errors; reading
\* always ends.
C6_Balance == [](C6State) /\ (pc = "read" ~> pc \in {"done", "raised"})

\* a balanced source with a tuple in a tuple has been read to its end
C6_Witness ==
    /\ pc = "done"
    /\ Balanced(code)
    /\ \E i \in 1..Len(out) : is_node(out[i]) /\ out[i].e[1].k = "tuple"

\* the next token is a ")" and no "(" is open
ExtraParen ==
    /\ pc = "read"
    /\ lexer_pos < Len(code)
    /\ code[lexer_pos + 1] = ")"
    /\ Opens(SubSeq(code, 1, lexer_pos)) = 0

\* the line of the character at offset p (from 1) and its column in the line
LineOf(s, p) == 1 + Count(SubSeq(s, 1, p - 1), "\n")
ColumnOf(s, p) == Cardinality({i \in 1..p : \A j \in i..(p - 1) : s[j] /= "\n"})

\* C7: reading a ")" while no "(" is open raises SyntaxError (not the soft
\* one) "too many )s" whose position is the line and column of that paren,
\* and every form completed before it has been yielded already.
C7_ExtraParen ==
    [][ExtraParen =>
          /\ pc' = "raised"
          /\ err'.type = "SyntaxError"
          /\ err'.msg = "too many )s"
          /\ position(code, err'.pos) = [lineno |-> LineOf(code, lexer_pos + 1),
                                         offset |-> ColumnOf(code, lexer_pos + 1)]
          /\ out' = out
          /\ Len(out) = TopLevelForms(code, lexer_pos)]_vars

\* an extra paren on a second line, after a tuple and a number were yielded
C7_Witness ==
    /\ pc = "raised"
    /\ err.msg = "too many )s"
    /\ position(code, err.pos).lineno = 2
    /\ Len(out) = 2


(***************************************************************************)
(* Reading sources that may stop short: parens, the quote tag, a user tag  *)
(* of two arguments, an atom, a string quote and a comment without its     *)
(* newline.                                                                 *)
(***************************************************************************)
MaxPieces == 4
SoftPieces == {<<"(">>, <<")">>, <<"'">>, <<"a", " ">>, <<"t", "#", "#">>, <<"\"">>,
               <<";", "c">>}

InitSoft == NoRead /\ IdleCompiler /\ IdleContext /\ IdleThreads

\* list(Lissp().reads(c))
ReadsPieces ==
    /\ pc = "new"
    /\ \E c \in Texts(SoftPieces, MaxPieces) : Reads("lissp1", c, new_env(__main__), "reads")

NextSoft ==
    \/ ReadsPieces
    \/ WhitespaceToken
    \/ Open
    \/ Close
    \/ Quote
    \/ Tag
    \/ Unicode
    \/ ContinueToken
    \/ Bare
    \/ EndOfTokens
    \/ StopIteration

SpecSoft == InitSoft /\ [][NextSoft]_vars

MissingArgument == {"tag missing argument", "reader tag missing argument"}

\* C8: the errors of incompleteness.  When the input ends, whatever is
\* raised (an unclosed paren, a tag of any arity without its argument) is a
\* SoftSyntaxError; an unterminated string or comment line raises a
\* SoftSyntaxError; when a ")" ends the enclosing form before a tag has its
\* arguments, the error is a SyntaxError that is not soft.
C8_SoftOrHard ==
    [][pc = "read" /\ err'.type /= "" =>
          /\ lexer_pos = Len(code) =>
                /\ err'.type = "SoftSyntaxError"
                /\ err'.msg \in MissingArgument \cup {"form missing a )"}
                /\ depth /= <<>> <=> err'.msg = "form missing a )"
          /\ Pulls("continue") =>
                /\ err'.type = "SoftSyntaxError"
                /\ code[lexer_pos + 1] \in {"\"", ";"}
          /\ Pulls("close") /\ frames /= <<>> /\ Last(frames).kind /= "open" =>
                /\ err'.type = "SyntaxError"
                /\ err'.msg \in MissingArgument \cup {"too many )s"}
          /\ err'.type = "SoftSyntaxError" =>
                lexer_pos = Len(code) \/ Pulls("continue")]_vars

\* a ")" closed the tuple before the tag of two arguments had its second
C8_Witness ==
    /\ pc = "raised"
    /\ err.type = "SyntaxError"
    /\ err.msg = "reader tag missing argument"
    /\ code[lexer_pos] = ")"


(***************************************************************************)
(* Reading one template: a backtick, then unquotes, splices, parens, a     *)
(* symbol and a control word.                                               *)
(***************************************************************************)
MaxBody == 5
TemplatePieces == {<<",">>, <<",", "@">>, <<"(">>, <<")">>, <<"a", " ">>, <<":", "k", " ">>}

InitTemplate == NoRead /\ IdleCompiler /\ IdleContext /\ IdleThreads

\* list(Lissp().reads(c))
ReadsTemplate ==
    /\ pc = "new"
    /\ \E b \in Texts(TemplatePieces, MaxBody) :
          Reads("lissp1", <<Backtick>> \o b, new_env(__main__), "reads")

NextTemplate ==
    \/ ReadsTemplate
    \/ WhitespaceToken
    \/ Open
    \/ Close
    \/ Template
    \/ Unquote
    \/ Control
    \/ Bare
    \/ EndOfTokens
    \/ StopIteration

SpecTemplate == InitTemplate /\ [][NextTemplate]_vars

\* what the element y of a templated tuple contributes to the spine, first
\* telling whether it is the first element, and what a form x templates to
RECURSIVE Templated(_)
Contribution(y, first) ==
    CASE y.k = "_Unquote" /\ y.s = <<":", "?">> -> <<Str(<<":", "?">>), y.e[1]>>
      [] y.k = "_Unquote" /\ y.s = <<":", "*">> -> <<Str(<<":", "*">>), y.e[1]>>
      [] y.k = "str" /\ y.s[1] /= ":" ->
           <<Str(<<":", "?">>), Tuple(<<Str(quote), Str(qualify(y.s, first))>>)>>
      [] y.k = "tuple" /\ y.e /= <<>> -> <<Str(<<":", "?">>), Templated(y)>>
      [] OTHER -> <<Str(<<":", "?">>), y>>

Templated(x) ==
    CASE x.k = "tuple" /\ x.e /= <<>> ->
           Tuple(<<Str(<<>>), Str(<<":">>)>>
                 \o Concat([i \in 1..Len(x.e) |-> Contribution(x.e[i], i = 1)])
                 \o <<Str(<<":", "?">>), Str(<<>>)>>)
      [] x.k = "_Unquote" /\ x.s = <<":", "?">> -> x.e[1]
      [] x.k = "str" /\ x.s[1] /= ":" -> Tuple(<<Str(quote), Str(qualify(x.s, FALSE))>>)
      [] OTHER -> x

\* C10: a template of a non-empty tuple is the spine ("", ":", t1, v1, ...,
\* ":?", "") with (":?", x) for ,x, (":*", x) for ,@x, (":?", ("quote",
\* qualified)) for a string that begins with no ":", (":?", its template) for
\* a non-empty tuple and (":?", itself) for any other atom; a lone ,x
\* templates to x, a lone control word or empty tuple to itself; a lone ,@x
\* raises "splice not in tuple".  The template is what the reader yields.
C10_TemplateShape ==
    /\ \A i \in 1..Len(templates) :
          IF templates[i].form.k = "_Unquote" /\ templates[i].form.s = <<":", "*">>
          THEN /\ templates[i].raised
               /\ pc = "raised"
               /\ err.type = "SyntaxError"
               /\ err.msg = "splice not in tuple"
          ELSE /\ ~templates[i].raised
               /\ templates[i].result = Templated(templates[i].form)
    /\ pc = "done" => Len(templates) = 1 /\ out[1] = Templated(templates[1].form)
    /\ pc = "raised" /\ err.msg = "splice not in tuple" => Len(templates) = 1

\* a tuple of a splice and a symbol has been templated and yielded
C10_Witness ==
    /\ pc = "done"
    /\ \E i, j \in 1..Len(templates[1].form.e) :
          /\ templates[1].form.e[i].k = "_Unquote"
          /\ templates[1].form.e[i].s = <<":", "*">>
          /\ templates[1].form.e[j].k = "str"


(***************************************************************************)
(* Reading unquotes and gensyms inside and outside of templates.           *)
(***************************************************************************)
UnquotePieces == {<<Backtick>>, <<",">>, <<",", "@">>, <<"$", "#">>, <<"a", " ">>, <<"(">>,
                  <<")">>}

InitUnquote == NoRead /\ IdleCompiler /\ IdleContext /\ IdleThreads

\* list(Lissp().reads(c))
ReadsUnquote ==
    /\ pc = "new"
    /\ \E c \in Texts(UnquotePieces, MaxPieces) :
          Reads("lissp1", c, new_env(__main__), "reads")

NextUnquote ==
    \/ ReadsUnquote
    \/ WhitespaceToken
    \/ Open
    \/ Close
    \/ Template
    \/ Unquote
    \/ Gensym
    \/ Bare
    \/ EndOfTokens
    \/ StopIteration

SpecUnquote == InitUnquote /\ [][NextUnquote]_vars

\* the activation fr[i] is the _pull of a "$#" token
IsGensymPull(fr, i) == fr[i].kind = "pull" /\ fr[i].tok = "gensym"

\* the next token completes the argument a "$#" token waits for: an atom, or
\* the ")" of a tuple
GensymArgumentArrives ==
    /\ pc = "read"
    /\ lexer_pos < Len(code)
    /\ frames /= <<>>
    /\ \/ IsGensymPull(frames, Len(frames)) /\ Tok.k = "bare"
       \/ /\ Len(frames) >= 2
          /\ frames[Len(frames)].kind = "open"
          /\ IsGensymPull(frames, Len(frames) - 1)
          /\ Tok.k = "close"

\* C9: while a parse runs the open unquotes never outnumber the open
\* templates; a "," or ",@" that would outnumber them raises SyntaxError
\* "unquote outside of template" at once, any other is accepted; a "$#" read
\* with no template open raises SyntaxError "gensym outside of template"
\* when its argument arrives, and no gensym is ever made outside of a
\* template.
C9_OnlyInTemplate ==
    [][/\ pc' \in {"read", "done"} => Count(context', ",") <= Count(context', Backtick)
       /\ Pulls("unquote") =>
             IF Count(context, ",") >= Count(context, Backtick)
             THEN /\ pc' = "raised"
                  /\ err'.type = "SyntaxError"
                  /\ err'.msg = "unquote outside of template"
                  /\ err'.pos = Tok.pos
             ELSE pc' = "read" /\ err' = NoError
       /\ GensymArgumentArrives /\ context = <<>> =>
             /\ pc' = "raised"
             /\ err'.type = "SyntaxError"
             /\ err'.msg = "gensym outside of template"
       /\ Len(gensyms') > Len(gensyms) => Count(context, Backtick) > 0
       /\ err'.msg = "gensym outside of template" => err'.type = "SyntaxError"]_vars

\* a gensym with its argument was refused outside of a template, inside a
\* tuple
C9_Witness ==
    /\ pc = "raised"
    /\ err.msg = "gensym outside of template"
    /\ code[1] = "("

(***************************************************************************)
(* Several reads, by the same or by another Lissp, of sources with gensyms *)
(* in one template, in sibling and in nested templates.                     *)
(***************************************************************************)
MaxReads == 2
G == <<"$", "#", "a", " ">>
GensymSources ==
    {<<Backtick>> \o G,
     <<Backtick, "(">> \o G \o G \o <<")">>,
     <<Backtick>> \o G \o <<Backtick>> \o G,
     <<Backtick, "(", Backtick>> \o G \o G \o <<")">>,
     <<Backtick, "(">> \o G \o <<Backtick>> \o G \o G \o <<")">>,
     <<Backtick, "(", ",", Backtick, "(">> \o G \o <<",">> \o G \o <<")", ")">>,
     <<Backtick, "(">> \o G \o <<",", Backtick, ",">> \o G \o <<")">>}
ModuleNames == {__main__, <<"m">>}

InitGensym == NoRead /\ IdleCompiler /\ IdleContext /\ IdleThreads

\* list(l.reads(c)), for a Lissp l whose module is named name
ReadsGensym ==
    /\ nreads["lissp1"] + nreads["lissp2"] < MaxReads
    /\ \E l \in Readers, c \in GensymSources, name \in ModuleNames :
          Reads(l, c, new_env(name), "reads")

NextGensym ==
    \/ ReadsGensym
    \/ WhitespaceToken
    \/ Open
    \/ Close
    \/ Template
    \/ Unquote
    \/ Gensym
    \/ Bare
    \/ StopIteration

SpecGensym == InitGensym /\ [][NextGensym]_vars

\* the gensyms g and h were read in the same template (the same backtick of
\* the same read of the same Lissp)
SameTemplate(g, h) == g.lissp = h.lissp /\ g.n = h.n /\ g.template = h.template

\* C3: of the gensyms one Lissp read directly inside a template, two of the
\* same template have the same template number, hence the same name for the
\* same symbol; two of different templates (siblings, nested, or of another
\* read) have different numbers and different names.
C3_GensymPerTemplate ==
    \A i, j \in 1..Len(gensyms) :
        gensyms[i].lissp = gensyms[j].lissp /\ gensyms[i].direct /\ gensyms[j].direct =>
            IF SameTemplate(gensyms[i], gensyms[j])
            THEN /\ gensyms[i].c = gensyms[j].c
                 /\ gensyms[i].arg = gensyms[j].arg => gensyms[i].symbol = gensyms[j].symbol
            ELSE /\ gensyms[i].c /= gensyms[j].c
                 /\ gensyms[i].symbol /= gensyms[j].symbol

\* one Lissp read the same text twice, with a template nested in another
C3_Witness ==
    /\ pc = "done"
    /\ \E i, j, k \in 1..Len(gensyms) :
          /\ gensyms[i].lissp = gensyms[j].lissp
          /\ gensyms[i].code = gensyms[j].code
          /\ gensyms[i].n /= gensyms[j].n
          /\ SameTemplate(gensyms[j], gensyms[k])
          /\ j /= k
          /\ gensyms[i].direct /\ gensyms[j].direct /\ gensyms[k].direct

\* C5: two Lissps that each read, as their first read, the same text under
\* the same __name__ yield the same forms, gensyms included; the name of a
\* gensym is determined by the text, the __name__, the template number and
\* the symbol.
C5_Reproducible ==
    /\ \A i, j \in 1..Len(reads_done) :
          /\ reads_done[i].n = 1 /\ reads_done[j].n = 1
          /\ reads_done[i].code = reads_done[j].code
          /\ reads_done[i].name = reads_done[j].name
          => reads_done[i].out = reads_done[j].out /\ reads_done[i].err = reads_done[j].err
    /\ \A i, j \in 1..Len(gensyms) :
          /\ gensyms[i].code = gensyms[j].code
          /\ gensyms[i].name = gensyms[j].name
          /\ gensyms[i].c = gensyms[j].c
          /\ gensyms[i].arg = gensyms[j].arg
          => gensyms[i].symbol = gensyms[j].symbol

\* two Lissps have each read the same text of a tuple of templates under the
\* same __name__, as their first read
C5_Witness ==
    /\ Len(reads_done) = 2
    /\ reads_done[1].lissp /= reads_done[2].lissp
    /\ reads_done[1].code = reads_done[2].code
    /\ reads_done[1].name = reads_done[2].name
    /\ is_node(reads_done[2].out[1])
    /\ Len(gensyms) >= 4

(***************************************************************************)
(* Threads that call template_count, on one Lissp or on several.  The body *)
(* "self._template_count += 1; return self._template_count" is three       *)
(* steps, the attribute is loaded, the sum is stored, the attribute is     *)
(* loaded again and returned; no lock is held, so the steps of two threads *)
(* interleave.                                                              *)
(***************************************************************************)
MaxCalls == 3
Threads == {"t1", "t2"}

\* Lissp.__init__ of every instance; the threads have called nothing yet
InitCount ==
    /\ NoRead /\ IdleCompiler /\ IdleContext
    /\ tpc = [t \in Threads |-> "idle"]
    /\ treg = [t \in Threads |-> 0]
    /\ treader = [t \in Threads |-> "lissp1"]
    /\ returned = <<>>
    /\ overlapped = {}

\* the calls made so far, returned or not
Calls == Len(returned) + Cardinality({t \in Threads : tpc[t] /= "idle"})

\* the thread t calls r.template_count()
Call(t, r) ==
    /\ tpc[t] = "idle"
    /\ Calls < MaxCalls
    /\ tpc' = [tpc EXCEPT ![t] = "load"]
    /\ treader' = [treader EXCEPT ![t] = r]
    /\ overlapped' = IF \E u \in Threads \ {t} : tpc[u] /= "idle" /\ treader[u] = r
                     THEN overlapped \cup {r}
                     ELSE overlapped
    /\ UNCHANGED <<treg, returned>>
    /\ UNCHANGED <<readerVars, compilerVars, contextVars, flagVars>>

\* self._template_count is loaded, for the sum
Load(t) ==
    /\ tpc[t] = "load"
    /\ treg' = [treg EXCEPT ![t] = template_count[treader[t]]]
    /\ tpc' = [tpc EXCEPT ![t] = "store"]
    /\ UNCHANGED <<treader, returned, overlapped>>
    /\ UNCHANGED <<readerVars, compilerVars, contextVars, flagVars>>

\* the sum is stored in self._template_count
Store(t) ==
    /\ tpc[t] = "store"
    /\ template_count' = [template_count EXCEPT
                             ![treader[t]] = Lissp_template_count(treg[t])]
    /\ tpc' = [tpc EXCEPT ![t] = "return"]
    /\ UNCHANGED <<code, lexer_pos, parser_pos, depth, context, counters, frames, out,
                   err, pc, lissp, qualname, blake, nreads, gensyms, templates,
                   reads_done>>
    /\ UNCHANGED <<treg, treader, returned, overlapped>>
    /\ UNCHANGED <<compilerVars, contextVars, flagVars>>

\* a template_count that returns the number it found
return_loaded(stored, loaded) == loaded

\* return self._template_count: the attribute as it is now
return_template_count(stored, loaded) == stored

Return(t) ==
    /\ tpc[t] = "return"
    /\ returned' = Append(returned,
                          [thread |-> t, lissp |-> treader[t],
                           value |-> return_template_count(template_count[treader[t]],
                                                           treg[t])])
    /\ tpc' = [tpc EXCEPT ![t] = "idle"]
    /\ UNCHANGED <<treg, treader, overlapped>>
    /\ UNCHANGED <<readerVars, compilerVars, contextVars, flagVars>>

NextCount ==
    \/ \E t \in Threads, r \in Readers : Call(t, r)
    \/ \E t \in Threads : Load(t)
    \/ \E t \in Threads : Store(t)
    \/ \E t \in Threads : Return(t)

SpecCount == InitCount /\ [][NextCount]_vars

\* the numbers the Lissp r returned, in the order of the returns
ReturnedBy(r) == SelectSeq(returned, LAMBDA c : c.lissp = r)

\* C4, as stated: no two calls of template_count in the process return the
\* same number.
C4_NeverTwice ==
    \A i, j \in 1..Len(returned) : i /= j => returned[i].value /= returned[j].value

\* C4, amended: the count belongs to the Lissp instance.  On an instance
\* whose calls never overlapped, the k-th call returns k, so that instance
\* returns no number twice; nothing relates the numbers of two instances, and
\* nothing is promised for an instance whose calls overlapped.
C4_PerInstanceSequential ==
    \A r \in Readers \ overlapped :
        \A k \in 1..Len(ReturnedBy(r)) : ReturnedBy(r)[k].value = k

\* two instances, neither with overlapping calls, have returned the same
\* number
C4_Witness ==
    /\ overlapped = {}
    /\ \E i, j \in 1..Len(returned) :
          /\ returned[i].lissp /= returned[j].lissp
          /\ returned[i].value = returned[j].value
    /\ \E r \in Readers : Len(ReturnedBy(r)) >= 2

(***************************************************************************)
(* macro_context blocks.  A block is entered by expand_macro around the    *)
(* call of a macro, by _tag around the call of a tag and by _inject around *)
(* an eval; what runs inside may enter further blocks, for the same        *)
(* compiler or for another, and leaves by returning or by raising.         *)
(***************************************************************************)
MaxNesting == 3
\* the environments of two compilers
Envs == {"env1", "env2"}
\* who enters a block
Enterers == {"expand_macro", "_tag", "_inject"}

\* no block was entered; ENV is unset
InitEnv ==
    /\ NoRead /\ IdleCompiler /\ IdleThreads
    /\ ENV = <<>>
    /\ blocks = <<>>
    /\ exited = <<>>

\* macro_context(e), up to its yield, when ENV is cur: the ENV it leaves and
\* the token it holds (none when e is current already)
macro_context_enter(e, cur) ==
    IF cur = <<e>>
    THEN [ENV |-> cur, token |-> <<>>]
    ELSE [ENV |-> <<e>>, token |-> <<cur>>]

\* a macro_context whose reset is skipped when the block raises
macro_context_exit_unprotected(b, cur, how) ==
    IF b.token = <<>> \/ how = "raise" THEN cur ELSE b.token[1]

\* macro_context, past its yield, when ENV is cur: ENV.reset(token) in the
\* finally clause, whether the block returned or raised; nothing when the
\* block holds no token
macro_context_exit(b, cur, how) ==
    IF b.token = <<>> THEN cur ELSE b.token[1]

\* with macro_context(e): entered by the caller by
Enter(by, e) ==
    /\ Len(blocks) < MaxNesting
    /\ LET m == macro_context_enter(e, ENV)
       IN /\ ENV' = m.ENV
          /\ blocks' = Append(blocks, [by |-> by, env |-> e, token |-> m.token,
                                       before |-> ENV, entered |-> m.ENV])
    /\ UNCHANGED exited
    /\ UNCHANGED <<readerVars, compilerVars, threadVars, flagVars>>

\* the innermost block is left: how is "return" or "raise"
Exit(how) ==
    /\ LET b == Last(blocks)
           after == macro_context_exit(b, ENV, how)
       IN /\ ENV' = after
          /\ exited' = <<[by |-> b.by, env |-> b.env, how |-> how,
                          before |-> b.before, after |-> after]>>
    /\ blocks' = Front(blocks)
    /\ UNCHANGED <<readerVars, compilerVars, threadVars, flagVars>>

\* the macro, the tag or the eval returns
ReturnFromBlock ==
    /\ blocks /= <<>>
    /\ Exit("return")

\* the macro, the tag or the eval raises
RaiseFromBlock ==
    /\ blocks /= <<>>
    /\ Exit("raise")

NextEnv ==
    \/ \E by \in Enterers, e \in Envs : Enter(by, e)
    \/ ReturnFromBlock
    \/ RaiseFromBlock

SpecEnv == InitEnv /\ [][NextEnv]_vars

\* C2: the block that exited last, by return or by raise, left ENV as it was
\* before the block was entered (unset included); inside the innermost open
\* block ENV is the environment the block was entered with; and entering
\* with the environment that was current took no token and changed nothing.
C2_EnvRestored ==
    /\ exited /= <<>> => exited[1].after = exited[1].before
    /\ exited /= <<>> /\ blocks = <<>> => ENV = <<>>
    /\ blocks /= <<>> => ENV = <<Last(blocks).env>>
    /\ \A i \in 1..Len(blocks) :
          /\ blocks[i].entered = <<blocks[i].env>>
          /\ blocks[i].before = <<blocks[i].env>> =>
                blocks[i].token = <<>> /\ blocks[i].entered = blocks[i].before

\* a block for another environment, nested in a block that was entered with
\* the environment already current, has raised
C2_Witness ==
    /\ exited /= <<>>
    /\ exited[1].how = "raise"
    /\ Len(blocks) = 2
    /\ blocks[2].token = <<>>
    /\ exited[1].env /= blocks[2].env
    /\ exited[1].before = <<blocks[2].env>>

(***************************************************************************)
(* Compiler.compile in evaluate mode, fed by the reader: Lissp.compile.    *)
(* Compiled code is a tree: a call (its callee and its arguments), a macro *)
(* (the head that was expanded and the code of the expansion), a fragment  *)
(* (a str emitted as it is) or atomic (a literal for the form).  Executing *)
(* code is followed only for what it does to the environment.              *)
(***************************************************************************)
Code(k, s, e) == [k |-> k, s |-> s, e |-> e]

\* functions the module of the sources has: defmacro_ sets an attribute of
\* _macro_ (making _macro_ when it is missing), setglobal sets a global
defmacro_ == <<"d">>
setglobal == <<"s">>

\* the macros defmacro_ makes: lambda *tail: tail[0] if tail else ()
MacroCall(tail) == IF tail = <<>> THEN Tuple(<<>>) ELSE tail[1]

\* but the macro it makes under the name r raises when it is called
MacroRaises(name) == name = <<"r">>

\* compiler.MACRO
MACRO == <<".", ".">> \o MACROS \o <<".">>

\* s.replace(old, new, 1), old not empty
RECURSIVE Replace1(_, _, _)
Replace1(s, old, new) ==
    IF s = <<>> THEN <<>>
    ELSE IF At(s, 0, old) THEN new \o SubSeq(s, Len(old) + 1, Len(s))
    ELSE <<Head(s)>> \o Replace1(Tail(s), old, new)

\* RE_MACRO.split(head, 1): head alone, or what is before the first
\* separator, the separator and what is after it
RE_MACRO_split(head) ==
    LET ps == {p \in 0..Len(head) : At(head, p, MACRO) \/ At(head, p, MAYBE)}
    IN IF ps = {} THEN <<head>>
       ELSE LET p == CHOOSE q \in ps : \A r \in ps : q <= r
                sep == IF At(head, p, MACRO) THEN MACRO ELSE MAYBE
            IN <<SubSeq(head, 1, p), sep, SubSeq(head, p + Len(sep) + 1, Len(head))>>

\* the modules __import__ finds that have a _macro_, and its attributes
MacroModules == (<<"m">> :> {<<"a">>})

\* eval of __import__(mod)._macro_.name: the macro, or the exception
ForeignMacro(mod, name) ==
    IF mod \in DOMAIN MacroModules
    THEN IF name \in MacroModules[mod] THEN "" ELSE "AttributeError"
    ELSE IF mod \in DOMAIN Importable \cup {__main__} THEN "AttributeError"
    ELSE "ModuleNotFoundError"

NoMacro == [k |-> "none", name |-> <<>>]
Macro(name) == [k |-> "macro", name |-> name]
Raised(type) == [k |-> "raise", name |-> <<>>]

\* Compiler._unqualified_macro
_unqualified_macro(e, head) == IF HasMacro(e, head) THEN Macro(head) ELSE NoMacro

\* a _qualified_macro that takes a missing macro for no macro, whatever the
\* separator
_qualified_macro_lenient(e, head, parts) ==
    IF parts[1] = EnvName(e)
    THEN IF HasMacro(e, parts[3]) THEN Macro(parts[3]) ELSE NoMacro
    ELSE IF ~(\A i \in 1..Len(SplitDots(head)) :
                 SplitDots(head)[i] = <<>> \/ isidentifier(SplitDots(head)[i]))
         \/ Contains(head, <<".", ".", ".">>)
    THEN Raised("SyntaxError")
    ELSE IF ForeignMacro(parts[1], parts[3]) = "" THEN Macro(parts[3])
    ELSE IF ForeignMacro(parts[1], parts[3]) = "AttributeError" THEN NoMacro
    ELSE Raised(ForeignMacro(parts[1], parts[3]))

\* Compiler._qualified_macro: a macro of this module is looked up in env, one
\* of another module is imported; LookupError and AttributeError are
\* swallowed only after MAYBE
_qualified_macro(e, head, parts) ==
    IF parts[1] = EnvName(e)
    THEN IF HasMacro(e, parts[3]) THEN Macro(parts[3])
         ELSE IF parts[2] /= MAYBE
         THEN Raised(IF e.has_macros THEN "AttributeError" ELSE "KeyError")
         ELSE NoMacro
    ELSE IF ~(\A i \in 1..Len(SplitDots(head)) :
                 SplitDots(head)[i] = <<>> \/ isidentifier(SplitDots(head)[i]))
         \/ Contains(head, <<".", ".", ".">>)
    THEN Raised("SyntaxError")
    ELSE IF ForeignMacro(parts[1], parts[3]) = "" THEN Macro(parts[3])
    ELSE IF ForeignMacro(parts[1], parts[3]) = "AttributeError" /\ parts[2] = MAYBE
    THEN NoMacro
    ELSE Raised(ForeignMacro(parts[1], parts[3]))

\* Compiler._get_macro: the macro, none, or the exception of the lookup
_get_macro(head, e) ==
    IF Len(RE_MACRO_split(head)) > 1
    THEN _qualified_macro(e, Replace1(head, MAYBE, MACRO), RE_MACRO_split(head))
    ELSE _unqualified_macro(e, Replace1(head, MAYBE, MACRO))

lambda == <<"l","a","m","b","d","a">>

\* what _trace returns for a method that raised: the text that marks the
\* expression, under the method's name; the exception is left in self.error
Traced(method) == Code("error", method, <<>>)

\* the value expand_macro returns for a head that is no macro
_SENTINEL == Code("_SENTINEL", <<>>, <<>>)

\* self.error is set: the code holds the mark of a method that raised
RECURSIVE HasError(_)
HasError(c) == c.k = "error" \/ \E i \in 1..Len(c.e) : HasError(c.e[i])

\* the offset of the first ":" in xs, Len(xs) + 1 when it holds none:
\* takewhile(lambda a: a != ":", xs) takes what is before it
FirstColon(xs) ==
    LET colons == {i \in 1..Len(xs) : xs[i] = Str(<<":">>)}
    IN IF colons = {} THEN Len(xs) + 1
       ELSE CHOOSE i \in colons : \A j \in colons : i <= j

\* compiler.PAIR_WORDS
PAIR_WORDS ==
    (<<":", "*">> :> <<"*">>) @@ (<<":", "*", "*">> :> <<"*", "*">>) @@ (<<":", "?">> :> <<>>)

\* k.split(".")[-1]
AfterLastDot(k) == Last(SplitDots(k))

\* the target Compiler._pair_arg writes before the value
_pair_target(k) ==
    LET t == IF k \in DOMAIN PAIR_WORDS THEN PAIR_WORDS[k] ELSE k \o <<"=">>
    IN IF Contains(t, <<".", ".">>) THEN AfterLastDot(t) ELSE t

\* a qualified_identifier that imports this module like any other
qualified_identifier_imports(text) ==
    Code("import", ModuleOf(text), <<Code("fragment", FunctionOf(text), <<>>)>>)

\* Compiler.qualified_identifier: a global of this module, or an import and
\* an attribute
qualified_identifier(text) ==
    IF ModuleOf(text) = qualname
    THEN LET chain == SplitDots(FunctionOf(text))
         IN Code("globals", chain[1],
                 IF Len(chain) = 1 THEN <<>>
                 ELSE <<Code("fragment",
                             SubSeq(FunctionOf(text), Len(chain[1]) + 2,
                                    Len(FunctionOf(text))), <<>>)>>)
    ELSE Code("import", ModuleOf(text), <<Code("fragment", FunctionOf(text), <<>>)>>)

\* Compiler.module_identifier
module_identifier(text) == Code("import", Front(text), <<>>)

\* Compiler.fragment: Compiler._fragment(self.qualname, code)
fragment(text) ==
    IF Contains(text, <<".", ".", ".">>) THEN Code("fragment", text, <<>>)
    ELSE IF \E i \in 1..Len(SplitDots(text)) :
               SplitDots(text)[i] /= <<>> /\ ~isidentifier(SplitDots(text)[i])
    THEN Code("fragment", text, <<>>)
    ELSE IF Contains(text, <<".", ".">>) THEN qualified_identifier(text)
    ELSE IF text /= <<>> /\ Last(text) = "." THEN module_identifier(text)
    ELSE Code("fragment", text, <<>>)

\* repr of a str without quotes or backslashes
repr(text) == <<"'">> \o text \o <<"'">>

\* ",fromlist='*'" if "." in module else ""
fromlist(module) == IF Contains(module, <<".">>) THEN <<",", "f", "r", "o", "m", "l", "i", "s", "t", "=", "'", "*", "'">> ELSE <<>>

\* the text Compiler._fragment returns, of the code c it was modelled as
fragment_text(c) ==
    LET chain == IF c.e = <<>> THEN <<>> ELSE <<".">> \o c.e[1].s
    IN IF c.k = "globals" THEN <<"_", "_", "i", "m", "p", "o", "r", "t", "_", "_", "(", "'", "b", "u", "i", "l", "t", "i", "n", "s", "'", ")", ".", "g", "l", "o", "b", "a", "l", "s", "(", ")">> \o <<"[">> \o repr(c.s) \o <<"]">> \o chain
       ELSE IF c.k = "import"
       THEN __import__ \o <<"(">> \o repr(c.s) \o fromlist(c.s) \o <<")">> \o chain
       ELSE c.s

\* Compiler.atomic: a literal for the form
atomic(x) == Code("atomic", <<>>, <<x>>)

\* f"{x}", for the forms the model puts in parameters: strs, ints and ()
Format(x) == IF x.k \in {"str", "int"} THEN x.s ELSE <<"(", ")">>

\* the parameters compile to the empty str
NoParameters(c) ==
    /\ c.k = "parameters"
    /\ \/ c.e = <<>>
       \/ Len(c.e) = 1 /\ c.e[1].s = <<>> /\ c.e[1].e = <<>>

\* Compiler.compile_form and the methods it calls, each under _trace
RECURSIVE compile_form(_, _)
RECURSIVE tuple_(_, _)
RECURSIVE special(_, _)
RECURSIVE lambda_(_, _)
RECURSIVE parameters(_, _)
RECURSIVE body(_, _)
RECURSIVE invocation(_, _)
RECURSIVE expand_macro(_, _)
RECURSIVE call(_, _)
RECURSIVE _pair_arg(_, _, _)

\* Compiler._pair_arg
_pair_arg(k, v, e) == Code("arg", _pair_target(k), <<compile_form(v, e)>>)

\* a call that takes the method's self from whatever argument comes first
call_any_self(f, e) ==
    LET rest == Tail(f.e)
        colon == FirstColon(rest)
        singles == [i \in 1..(colon - 1) |-> Code("arg", <<>>, <<compile_form(rest[i], e)>>)]
        paired == SubSeq(rest, colon + 1, Len(rest))
        pairs == [i \in 1..(Len(paired) \div 2) |->
                     _pair_arg(paired[2 * i - 1].s, paired[2 * i], e)]
        args == singles \o pairs
    IN IF Len(paired) % 2 = 1 THEN Traced(<<"c","a","l","l">>)
       ELSE IF \E i \in 1..(Len(paired) \div 2) : ~is_str(paired[2 * i - 1])
       THEN Traced(<<"c","a","l","l">>)
       ELSE IF is_str(f.e[1]) /\ StartsWith(f.e[1].s, <<".">>)
       THEN IF args = <<>> THEN Traced(<<"c","a","l","l">>)
            ELSE Code("method", Tail(f.e[1].s), <<args[1].e[1]>> \o Tail(args))
       ELSE Code("call", <<>>, <<compile_form(f.e[1], e)>> \o args)

\* Compiler.call: the singles, then the pairs; a head that begins with "."
\* is a method of the first argument, which must be positional
call(f, e) ==
    LET rest == Tail(f.e)
        colon == FirstColon(rest)
        singles == [i \in 1..(colon - 1) |-> Code("arg", <<>>, <<compile_form(rest[i], e)>>)]
        paired == SubSeq(rest, colon + 1, Len(rest))
        pairs == [i \in 1..(Len(paired) \div 2) |->
                     _pair_arg(paired[2 * i - 1].s, paired[2 * i], e)]
        args == singles \o pairs
    IN IF Len(paired) % 2 = 1 THEN Traced(<<"c","a","l","l">>)
       ELSE IF \E i \in 1..(Len(paired) \div 2) : ~is_str(paired[2 * i - 1])
       THEN Traced(<<"c","a","l","l">>)
       ELSE IF is_str(f.e[1]) /\ StartsWith(f.e[1].s, <<".">>)
       THEN IF singles = <<>> /\ pairs = <<>> THEN Traced(<<"c","a","l","l">>)
            ELSE IF singles /= <<>> \/ paired[1] = Str(PositionalTarget)
            THEN Code("method", Tail(f.e[1].s), <<args[1].e[1]>> \o Tail(args))
            ELSE Traced(<<"c","a","l","l">>)
       ELSE Code("call", <<>>, <<compile_form(f.e[1], e)>> \o args)

\* Compiler.expand_macro: the code of the expansion, _SENTINEL for no macro
expand_macro(f, e) ==
    LET macro == _get_macro(f.e[1].s, e)
    IN IF macro.k = "raise" THEN Traced(<<"e","x","p","a","n","d","_","m","a","c","r","o">>)
       ELSE IF macro.k = "none" THEN _SENTINEL
       ELSE IF MacroRaises(macro.name) THEN Traced(<<"e","x","p","a","n","d","_","m","a","c","r","o">>)
       ELSE compile_form(MacroCall(Tail(f.e)), e)

\* Compiler.invocation
invocation(f, e) ==
    IF expand_macro(f, e) /= _SENTINEL
    THEN Code("macro", f.e[1].s, <<expand_macro(f, e)>>)
    ELSE call(Tuple(<<Str(Replace1(f.e[1].s, MAYBE, <<".", ".">>))>> \o Tail(f.e)), e)

\* Compiler.body, of the forms fs
body(fs, e) ==
    IF Len(fs) = 1 THEN compile_form(fs[1], e)
    ELSE Code("body", <<>>, [i \in 1..Len(fs) |-> compile_form(fs[i], e)])

\* Compiler.parameters: a name for each single, a name or a name and the
\* code of its default for each pair
parameters(p, e) ==
    LET items == IF p.k = "str" THEN [i \in 1..Len(p.s) |-> Str(<<p.s[i]>>)] ELSE p.e
        colon == FirstColon(items)
        paired == SubSeq(items, colon + 1, Len(items))
        single(a) == IF a.s = <<":", "/">> THEN <<"/">>
                     ELSE IF a.s = SpliceTarget THEN <<"*">> ELSE a.s
        pair(k, v) ==
            IF k = Str(SpliceTarget)
            THEN Code("param", IF v = Str(PositionalTarget) THEN <<"*">>
                               ELSE <<"*">> \o Format(v), <<>>)
            ELSE IF k = Str(<<":", "/">>) THEN Code("param", <<"/">>, <<>>)
            ELSE IF k = Str(<<":", "*", "*">>) THEN Code("param", <<"*", "*">> \o Format(v), <<>>)
            ELSE IF v = Str(PositionalTarget) THEN Code("param", Format(k), <<>>)
            ELSE Code("param", Format(k) \o <<"=">>, <<compile_form(v, e)>>)
    IN IF p.k \notin {"str", "tuple"} THEN Traced(<<"p","a","r","a","m","e","t","e","r","s">>)
       ELSE IF Len(paired) % 2 = 1 THEN Traced(<<"p","a","r","a","m","e","t","e","r","s">>)
       ELSE IF \E i \in 1..(colon - 1) : ~is_str(items[i]) THEN Traced(<<"p","a","r","a","m","e","t","e","r","s">>)
       ELSE IF \E i \in 1..(Len(paired) \div 2) :
                  /\ paired[2 * i] = Str(PositionalTarget)
                  /\ ~is_str(paired[2 * i - 1])
       THEN Traced(<<"p","a","r","a","m","e","t","e","r","s">>)
       ELSE Code("parameters", <<>>,
                 [i \in 1..(colon - 1) |-> Code("param", single(items[i]), <<>>)]
                 \o [i \in 1..(Len(paired) \div 2) |-> pair(paired[2 * i - 1], paired[2 * i])])

\* Compiler.lambda_
lambda_(f, e) ==
    IF Len(f.e) < 2 THEN Traced(<<"l","a","m","b","d","a","_">>)
    ELSE Code("lambda", <<>>, <<parameters(f.e[2], e), body(Tail(Tail(f.e)), e)>>)

\* Compiler.special
special(f, e) ==
    IF f.e[1].s = quote
    THEN IF Len(f.e) = 2 THEN atomic(f.e[2]) ELSE Traced(<<"s","p","e","c","i","a","l">>)
    ELSE IF f.e[1].s = lambda THEN lambda_(f, e)
    ELSE invocation(f, e)

\* a Compiler.tuple_ without the progn optimization
tuple_without_progn(f, e) == IF is_str(f.e[1]) THEN special(f, e) ELSE call(f, e)

\* Compiler.tuple_
tuple_(f, e) ==
    IF /\ Len(f.e) = 1
       /\ is_node(f.e[1])
       /\ Len(f.e[1].e) >= 2
       /\ f.e[1].e[1] = Str(lambda)
       /\ NoParameters(parameters(f.e[1].e[2], e))
    THEN body(Tail(Tail(f.e[1].e)), e)
    ELSE IF is_str(f.e[1]) THEN special(f, e)
    ELSE call(f, e)

compile_form(x, e) ==
    IF is_node(x) THEN tuple_(x, e)
    ELSE IF is_str(x) /\ ~StartsWith(x.s, <<":">>) THEN fragment(x.s)
    ELSE atomic(x)

RECURSIVE Run(_, _)
RECURSIVE RunAll(_, _)

\* the call callee(*args) in the namespace e: what it leaves of e, and
\* whether it raised
Apply(callee, args, e) ==
    IF callee.k = "lambda" /\ NoParameters(callee.e[1]) /\ args = <<>>
    THEN Run(callee.e[2], e)
    ELSE IF callee.k /= "fragment" THEN [env |-> e, raised |-> TRUE]
    ELSE IF callee.s \in {defmacro_, setglobal}
    THEN IF /\ Len(args) = 1
            /\ args[1].s = <<>>
            /\ args[1].e[1].k = "atomic"
            /\ is_str(args[1].e[1].e[1])
         THEN [env |-> IF callee.s = defmacro_
                       THEN [e EXCEPT !.has_macros = TRUE,
                                      !.macros = @ \cup {args[1].e[1].e[1].s}]
                       ELSE [e EXCEPT !.globals = @ \cup {args[1].e[1].e[1].s}],
               raised |-> FALSE]
         ELSE [env |-> e, raised |-> TRUE]
    ELSE [env |-> e, raised |-> FALSE]

\* __import__(mod) and the attribute after it raise
ImportRaises(mod, attrs) ==
    \/ mod \notin DOMAIN Importable \cup DOMAIN MacroModules
    \/ /\ attrs /= <<>>
       /\ ~(mod \in DOMAIN Importable /\ attrs[1].s \in Importable[mod])
       /\ ~(mod = builtins /\ attrs[1].s \in BuiltinNames)

\* the expression c evaluated in the namespace e: the callee of a call and its
\* arguments are evaluated from left to right, then the call is made; a name
\* that is neither a global nor a builtin raises NameError, a global that is
\* missing KeyError; a lambda evaluates its defaults; no object of the model
\* has a method
RunAll(cs, e) ==
    IF cs = <<>> THEN [env |-> e, raised |-> FALSE]
    ELSE LET r == Run(Head(cs), e)
         IN IF r.raised THEN r ELSE RunAll(Tail(cs), r.env)

Run(c, e) ==
    IF c.k = "call"
    THEN LET r == RunAll(c.e, e)
         IN IF r.raised THEN r ELSE Apply(c.e[1], Tail(c.e), r.env)
    ELSE IF c.k = "method"
    THEN LET r == RunAll(c.e, e)
         IN [r EXCEPT !.raised = TRUE]
    ELSE IF c.k \in {"macro", "arg"} THEN Run(c.e[1], e)
    ELSE IF c.k = "body" THEN RunAll(c.e, e)
    ELSE IF c.k = "lambda" THEN Run(c.e[1], e)
    ELSE IF c.k = "parameters" THEN RunAll(c.e, e)
    ELSE IF c.k = "param"
    THEN IF c.e = <<>> THEN [env |-> e, raised |-> FALSE] ELSE Run(c.e[1], e)
    ELSE IF c.k = "fragment"
    THEN [env |-> e,
          raised |-> c.s /= <<>> /\ c.s \notin e.globals \cup BuiltinNames]
    ELSE IF c.k = "globals"
    THEN [env |-> e, raised |-> ~InEnv(c.s, e) \/ c.e /= <<>>]
    ELSE IF c.k = "import" THEN [env |-> e, raised |-> ImportRaises(c.s, c.e)]
    ELSE IF c.k = "error" THEN [env |-> e, raised |-> TRUE]
    ELSE [env |-> e, raised |-> FALSE]

__doc__ == <<"_","_","d","o","c","_","_">>

\* the code is one str literal, under the comments of its expansions: a
\* docstring when it is executed as a module
RECURSIVE IsDocstring(_)
IsDocstring(c) ==
    \/ c.k = "atomic" /\ is_str(c.e[1])
    \/ c.k = "macro" /\ IsDocstring(c.e[1])

\* an exec whose effects on the environment are undone
exec_rolled_back(c, e) == [Run(c, e) EXCEPT !.env = e]

\* exec(compile(code, filename, "exec"), e) in Compiler.eval: a docstring
\* is bound to __doc__
exec(c, e) ==
    LET r == Run(c, e)
    IN IF IsDocstring(c) THEN [r EXCEPT !.env.globals = @ \cup {__doc__}] ELSE r

\* the exception _trace caught, the traceback of a failed exec
Exception == <<"Exception">>

\* a comment of the lines of a traceback
TracebackComment == Code("fragment", <<"#">>, <<>>)

\* form = self.compile_form(form), in the loop of Compiler.compile; each
\* macro_context block expand_macro entered has exited and has left ENV as
\* it was; a method that raised has left its exception in self.error
CompileForm ==
    /\ pc = "compile"
    /\ form' = compile_form(form, env)
    /\ error' = IF HasError(compile_form(form, env)) THEN Exception ELSE error
    /\ log' = Append(log, [op |-> "compile", i |-> Len(out), env |-> env,
                           form |-> compile_form(form, env)])
    /\ pc' = "exec"
    /\ UNCHANGED <<env, mode, result, abort, warnings>>
    /\ UNCHANGED <<code, lexer_pos, parser_pos, depth, context, counters, frames, out,
                   err, lissp, qualname, blake, template_count, nreads, gensyms,
                   templates, reads_done>>
    /\ UNCHANGED <<contextVars, threadVars>>

\* a Compiler.compile that leaves self.error as it is when it raises
clear_error_kept(e) == e

\* self.error = None, before CompileError is raised
clear_error(e) == <<>>

\* if self.error: ...; raise CompileError("\n" + form) from e
RaiseCompileError ==
    /\ pc = "exec"
    /\ error /= <<>>
    /\ error' = clear_error(error)
    /\ log' = Append(log, [op |-> "CompileError", i |-> Len(out), env |-> env,
                           form |-> form])
    /\ pc' = "CompileError"
    /\ UNCHANGED <<env, mode, form, result, abort, warnings>>
    /\ UNCHANGED <<code, lexer_pos, parser_pos, depth, context, counters, frames, out,
                   err, lissp, qualname, blake, template_count, nreads, gensyms,
                   templates, reads_done>>
    /\ UNCHANGED <<contextVars, threadVars>>

\* Compiler.eval that takes every module for __main__
is_main_always(e) == TRUE

\* self.env.get("__name__") == "__main__", in Compiler.eval
is_main(e) == e.name = <<__main__>>

\* result.extend(self.eval(form, i)), in the loop of Compiler.compile:
\* Compiler.eval returns the code, and after it the traceback as a comment
\* when the exec raised; it has set self.abort when the module is __main__
\* and has issued a PostCompileWarning otherwise
Exec ==
    /\ pc = "exec"
    /\ error = <<>>
    /\ LET r == exec(form, env)
       IN /\ env' = r.env
          /\ result' = IF r.raised THEN result \o <<form, TracebackComment>>
                       ELSE Append(result, form)
          /\ abort' = IF r.raised /\ is_main(env) THEN Exception ELSE abort
          /\ warnings' = IF r.raised /\ ~is_main(env) THEN Append(warnings, Len(out))
                         ELSE warnings
          /\ log' = Append(log, [op |-> "exec", i |-> Len(out), env |-> r.env,
                                 form |-> form])
          /\ pc' = IF r.raised /\ is_main(env) THEN "abort" ELSE "read"
    /\ UNCHANGED <<mode, form, error>>
    /\ UNCHANGED <<code, lexer_pos, parser_pos, depth, context, counters, frames, out,
                   err, lissp, qualname, blake, template_count, nreads, gensyms,
                   templates, reads_done>>
    /\ UNCHANGED <<contextVars, threadVars>>

\* a Compiler.compile that exits with self.abort as it is
clear_abort_kept(a) == a

\* self.abort = None, before sys.exit(1)
clear_abort(a) == <<>>

\* if self.abort: print(...); self.abort = None; sys.exit(1)
SysExit ==
    /\ pc = "abort"
    /\ abort /= <<>>
    /\ abort' = clear_abort(abort)
    /\ pc' = "exit"
    /\ UNCHANGED <<env, mode, form, result, log, error, warnings>>
    /\ UNCHANGED <<code, lexer_pos, parser_pos, depth, context, counters, frames, out,
                   err, lissp, qualname, blake, template_count, nreads, gensyms,
                   templates, reads_done>>
    /\ UNCHANGED <<contextVars, threadVars>>

\* the module the sources are compiled in: it has defmacro_ and setglobal
CompileEnv(name) == Env(<<name>>, FALSE, {}, {defmacro_, setglobal})

MaxForms == 3
\* top-level forms: (d 'a) and (d 'd) define a macro, (s 'id) sets a global,
\* (a) calls a or expands the macro a, the templates read a and id, and
\* (.a) is a method call without arguments
FormPieces ==
    {<<"(", "d", " ", "'", "a", ")">>,
     <<"(", "d", " ", "'", "d", ")">>,
     <<"(", "s", " ", "'", "i", "d", ")">>,
     <<"(", "a", ")">>,
     <<Backtick, "(", "a", ")">>,
     <<Backtick, "i", "d", " ">>,
     <<"(", ".", "a", ")">>}

InitCompile == NoRead /\ IdleCompiler /\ IdleContext /\ IdleThreads

\* Lissp(env=..., evaluate=True).compile(c): self.reads(c) makes the
\* Parser, self.compiler.compile(hissp) starts with no result
LisspCompile ==
    /\ pc = "new"
    /\ \E c \in Texts(FormPieces, MaxForms), name \in ModuleNames :
          Reads("lissp1", c, CompileEnv(name), "compile")

NextCompile ==
    \/ LisspCompile
    \/ WhitespaceToken
    \/ Open
    \/ Close
    \/ Template
    \/ Quote
    \/ Bare
    \/ CompileForm
    \/ RaiseCompileError
    \/ Exec
    \/ SysExit
    \/ StopIteration

SpecCompile == InitCompile /\ [][NextCompile]_vars

\* what is done with each top-level form, in this order
Ops == <<"read", "compile", "exec">>

\* the environment before the k-th event of log
EnvBefore(k) == IF k = 1 THEN CompileEnv(EnvName(env)) ELSE log[k - 1].env

\* the symbol in head position of what a template (a tuple of one symbol)
\* was read as
HeadSymbol(x) == x.e[4].e[2].s

\* C1: the events of the top-level forms are read 1, compile 1, exec 1,
\* read 2, compile 2, exec 2 and so on
\* (a form that does not compile ends them with a CompileError in the place
\* of its exec).  Form i is read and compiled in the
\* environment that executing form i-1 left (a template read in it qualifies
\* a head as a macro exactly if that environment has the macro), so what
\* executing form i makes is not there when form i is expanded; executing
\* form i changes the environment only after that, and form i+1 is read in
\* what it leaves.
C1_OneFormAtATime ==
    \A k \in 1..Len(log) :
        /\ \/ log[k].op = Ops[((k - 1) % 3) + 1]
           \/ log[k].op = "CompileError" /\ (k - 1) % 3 = 2 /\ k = Len(log)
        /\ log[k].i = ((k - 1) \div 3) + 1
        /\ log[k].op = "read" =>
              /\ log[k].env = EnvBefore(k)
              /\ log[k].form = out[log[k].i]
              /\ is_node(log[k].form) /\ log[k].form.e[1] = Str(<<>>) =>
                    (HeadSymbol(log[k].form) = qualname \o <<".", ".">> \o MACROS \o <<".", "a">>
                        <=> HasMacro(EnvBefore(k), <<"a">>))
        /\ log[k].op = "compile" =>
              /\ log[k].env = EnvBefore(k)
              /\ log[k].form = compile_form(log[k - 1].form, EnvBefore(k))
        /\ log[k].op = "exec" =>
              /\ log[k].form = log[k - 1].form
              /\ log[k].env = exec(log[k].form, EnvBefore(k)).env

\* (d 'd) was compiled as a call, though executing it made d a macro; the
\* next form, (d 'a), was expanded as the macro d; and the form after it, a
\* template, was read with the macros and globals of then
C1_Witness ==
    /\ Len(log) >= 7
    /\ log[2].form.k = "call"
    /\ ~HasMacro(log[2].env, defmacro_)
    /\ HasMacro(log[3].env, defmacro_)
    /\ log[5].form.k = "macro"
    /\ log[5].form.s = defmacro_
    /\ log[7].form.e[1] = Str(<<>>)

\* the k-th event of log is an exec that raised
ExecRaised(k) == log[k].op = "exec" /\ exec(log[k].form, EnvBefore(k)).raised

\* the code of the forms executed by the first k events of log, each
\* followed by the comment of its traceback when its exec raised
RECURSIVE ResultOf(_)
ResultOf(k) ==
    IF k = 0 THEN <<>>
    ELSE ResultOf(k - 1)
         \o (IF log[k].op = "exec" THEN <<log[k].form>> ELSE <<>>)
         \o (IF ExecRaised(k) THEN <<TracebackComment>> ELSE <<>>)

\* the numbers of the forms whose exec raised among the first k events
RECURSIVE WarnedOf(_)
WarnedOf(k) ==
    IF k = 0 THEN <<>>
    ELSE WarnedOf(k - 1) \o (IF ExecRaised(k) THEN <<log[k].i>> ELSE <<>>)

AfterAbort ==
    pc \in {"abort", "exit"} =>
        /\ pc = "abort" /\ pc' = "exit"
        /\ UNCHANGED <<code, lexer_pos, parser_pos, out, env, form, result, log>>

\* C18: in __main__, a form whose exec raised is the last thing that
\* happens: Compiler.compile sets the abort flag, clears it and exits with
\* status 1; no form is read, compiled or executed after it, the
\* environment is the one the forms before it and the form itself left, and
\* the abort flag is None when SystemExit is raised.
C18_AbortAfterForm ==
    /\ [](pc /= "new" /\ env.name = <<__main__>> =>
            /\ warnings = <<>>
            /\ (pc \in {"abort", "exit"}) <=> (log /= <<>> /\ ExecRaised(Len(log)))
            /\ pc = "abort" => abort /= <<>>
            /\ pc = "exit" => abort = <<>>
            /\ pc \in {"abort", "exit"} =>
                  /\ Len(out) = log[Len(log)].i
                  /\ env = log[Len(log)].env
                  /\ \A k \in 1..Len(log) :
                        /\ ExecRaised(k) => k = Len(log)
                        /\ log[k].env.macros \subseteq env.macros
                        /\ log[k].env.globals \subseteq env.globals)
    /\ [][AfterAbort]_vars

\* in __main__, (s 'id) (a) (a) was compiled: the second form raised
\* NameError and the compiler has exited; the third form is unread, the
\* global id is set
C18_Witness ==
    /\ pc = "exit"
    /\ env.name = <<__main__>>
    /\ Len(out) = 2
    /\ lexer_pos < Len(code)
    /\ <<"i", "d">> \in env.globals
    /\ Len(result) = 3

(***************************************************************************)
(* Compiling forms whose sub-forms fail: a macro that raises, a method call *)
(* without its self.                                                        *)
(***************************************************************************)
\* top-level forms: (d 'r) defines the macro r, which raises when it is
\* called; (r) calls r or expands it; (.a) is a method call without
\* arguments; ((.a) (r)) and (s ((.a) (r))) hold both, one and two tuples
\* deep; (s 'id) sets a global
FailingPieces ==
    {<<"(", "d", " ", "'", "r", ")">>,
     <<"(", "r", ")">>,
     <<"(", ".", "a", ")">>,
     <<"(", "(", ".", "a", ")", " ", "(", "r", ")", ")">>,
     <<"(", "s", " ", "(", "(", ".", "a", ")", " ", "(", "r", ")", ")", ")">>,
     <<"(", "s", " ", "'", "i", "d", ")">>}

InitFailing == NoRead /\ IdleCompiler /\ IdleContext /\ IdleThreads

\* Lissp(env=..., evaluate=True).compile(c) of a source of such forms
LisspCompileFailing ==
    /\ pc = "new"
    /\ \E c \in Texts(FailingPieces, MaxForms), name \in ModuleNames :
          Reads("lissp1", c, CompileEnv(name), "compile")

NextFailing ==
    \/ LisspCompileFailing
    \/ WhitespaceToken
    \/ Open
    \/ Close
    \/ Quote
    \/ Bare
    \/ CompileForm
    \/ RaiseCompileError
    \/ Exec
    \/ SysExit
    \/ StopIteration

SpecFailing == InitFailing /\ [][NextFailing]_vars

\* how many methods raised in the code c
RECURSIVE Errors(_)
RECURSIVE ErrorsIn(_)
ErrorsIn(cs) == IF cs = <<>> THEN 0 ELSE Errors(Head(cs)) + ErrorsIn(Tail(cs))
Errors(c) == (IF c.k = "error" THEN 1 ELSE 0) + ErrorsIn(c.e)

\* the events of log that are a CompileError
CompileErrors == {k \in 1..Len(log) : log[k].op = "CompileError"}

\* after CompileError is raised nothing is read, compiled or executed
AfterCompileError == pc /= "CompileError"

\* C19: a form in whose compilation a method or a macro raised, at any
\* depth and any number of times, gives one CompileError, raised for that
\* form before it is executed and before any later form is read; no code
\* with a failure in it is executed, and the error flag is None once the
\* CompileError is raised.
C19_OneCompileError ==
    /\ [](/\ Cardinality(CompileErrors) <= 1
          /\ \A k \in 1..Len(log) :
                /\ log[k].op = "exec" => Errors(log[k].form) = 0
                /\ log[k].op = "compile" /\ Errors(log[k].form) > 0 =>
                      \/ k = Len(log) /\ pc = "exec" /\ error /= <<>>
                      \/ /\ k + 1 = Len(log)
                         /\ log[k + 1].op = "CompileError"
                         /\ log[k + 1].i = log[k].i
                         /\ pc = "CompileError"
                /\ log[k].op = "CompileError" =>
                      /\ k = Len(log)
                      /\ Errors(log[k - 1].form) > 0
                      /\ Len(out) = log[k].i
                      /\ pc = "CompileError"
          /\ error /= <<>> => pc = "exec" /\ Errors(form) > 0
          /\ pc = "CompileError" => error = <<>> /\ CompileErrors /= {})
    /\ [][AfterCompileError]_vars

\* (d 'r) was executed, then (s ((.a) (r))) failed twice, two tuples deep:
\* the method call has no self and the macro r raised; one CompileError was
\* raised, the form after it is unread
C19_Witness ==
    /\ pc = "CompileError"
    /\ error = <<>>
    /\ Len(out) = 2
    /\ lexer_pos < Len(code)
    /\ HasMacro(env, <<"r">>)
    /\ Len(log) = 6
    /\ Errors(log[5].form) = 2
    /\ Len(result) = 1

(***************************************************************************)
(* Parser.qualify, called on symbols of every kind under environments that *)
(* have or lack a _macro_ namespace, macros and globals.                    *)
(***************************************************************************)
MaxQualify == 1
QualifySymbols ==
    {quote, __import__, <<"i","f">>, <<"_","Q","z","a","_","_","b">>,
     <<"a",".",".","b">>, <<"a",".">>, <<".","a">>, <<"1">>,
     <<"p","r","i","n","t">>, <<"i","d">>, <<"a">>, <<"b">>, <<"a",".","b">>,
     <<"p","r","i","n","t",".","a">>}
QualifyEnvs ==
    {Env(<<__main__>>, hm, ms, gs) :
        hm \in BOOLEAN, ms \in SUBSET {<<"a">>, <<"p","r","i","n","t">>},
        gs \in SUBSET {<<"a">>, <<"p","r","i","n","t">>}}

InitQualify == NoRead /\ IdleCompiler /\ IdleContext /\ IdleThreads

\* Lissp.env = e: the setter puts e in the compiler
Lissp_env(e) ==
    /\ pc = "new"
    /\ log = <<>>
    /\ env = new_env(__main__)
    /\ env' = e
    /\ UNCHANGED <<mode, form, result, log>>
    /\ UNCHANGED <<readerVars, contextVars, threadVars, flagVars>>

\* parser.qualify(symbol, as_invocation), for the record
Qualify(symbol, as_invocation) ==
    /\ pc = "new"
    /\ Len(log) < MaxQualify
    /\ log' = Append(log, [op |-> "qualify", symbol |-> symbol,
                           invocation |-> as_invocation, env |-> env,
                           result |-> qualify(symbol, as_invocation)])
    /\ UNCHANGED <<env, mode, form, result>>
    /\ UNCHANGED <<readerVars, contextVars, threadVars, flagVars>>

NextQualify ==
    \/ \E e \in QualifyEnvs : Lissp_env(e)
    \/ \E symbol \in QualifySymbols, as_invocation \in BOOLEAN : Qualify(symbol, as_invocation)

SpecQualify == InitQualify /\ [][NextQualify]_vars

\* the symbol is 'quote', '__import__', a reserved word, gensym-prefixed or
\* no chain of identifiers
Unqualifiable(s) ==
    \/ s \in {quote, __import__}
    \/ s \in kwlist
    \/ MatchesGensymPrefix(s)
    \/ \E i \in 1..Len(SplitDots(s)) : ~isidentifier(SplitDots(s)[i])

\* C11: qualify returns what the first rule that applies gives: the symbol
\* itself when it is unqualifiable; qualname.._macro_.s for an invocation
\* whose s is an attribute of the env's _macro_, builtin or not;
\* builtins..s for a builtin name that is no key of the env;
\* qualname..QzMaybe_.s for an invocation without a dot; else qualname..s.
C11_QualifyRules ==
    \A k \in 1..Len(log) :
        LET c == log[k]
            s == c.symbol
        IN c.op = "qualify" =>
              c.result =
                 IF Unqualifiable(s) THEN s
                 ELSE IF c.invocation /\ c.env.has_macros /\ s \in c.env.macros
                 THEN qualname \o <<".", ".", "_","m","a","c","r","o","_", ".">> \o s
                 ELSE IF s \in BuiltinNames /\ s \notin c.env.globals
                 THEN <<"b","u","i","l","t","i","n","s", ".", ".">> \o s
                 ELSE IF c.invocation /\ \A i \in 1..Len(s) : s[i] /= "."
                 THEN qualname \o <<".", ".", "Q","z","M","a","y","b","e","_", ".">> \o s
                 ELSE qualname \o <<".", ".">> \o s

\* an invocation of print was qualified as a macro, print being both a
\* builtin that the env does not shadow and a macro of the env
C11_Witness ==
    \E k \in 1..Len(log) :
        /\ log[k].op = "qualify"
        /\ log[k].symbol = <<"p","r","i","n","t">>
        /\ log[k].invocation
        /\ <<"p","r","i","n","t">> \notin log[k].env.globals
        /\ log[k].result = __main__ \o <<".", ".">> \o MACROS \o <<".">> \o log[k].symbol

(***************************************************************************)
(* Templates of symbols, numbers, unquotes and tuples, read in a module    *)
(* where a is a macro and in one where it is not.                           *)
(***************************************************************************)
MaxInTemplate == 4
PositionPieces == {<<"(">>, <<")">>, <<"a", " ">>, <<"1", " ">>, <<",">>}
PositionEnvs == {new_env(__main__), Env(<<__main__>>, TRUE, {<<"a">>}, {})}

InitPosition == NoRead /\ IdleCompiler /\ IdleContext /\ IdleThreads

\* list(Lissp(env=e).reads(c))
ReadsPosition ==
    /\ pc = "new"
    /\ \E b \in Texts(PositionPieces, MaxInTemplate), e \in PositionEnvs :
          Reads("lissp1", <<Backtick>> \o b, e, "reads")

NextPosition ==
    \/ ReadsPosition
    \/ WhitespaceToken
    \/ Open
    \/ Close
    \/ Template
    \/ Unquote
    \/ Bare
    \/ EndOfTokens
    \/ StopIteration

SpecPosition == InitPosition /\ [][NextPosition]_vars

\* the name has a qualifier that only an invocation gets
InvocationQualified(q) ==
    \/ Contains(q, <<".", ".", "_","m","a","c","r","o","_", ".">>)
    \/ Contains(q, <<".", ".", "Q","z","M","a","y","b","e","_", ".">>)

\* x is a symbol: a str that begins with no ":"
IsSymbol(x) == x.k = "str" /\ x.s /= <<>> /\ x.s[1] /= ":"

\* in r, what the tuple x was templated to, the i-th element of x stands at
\* 2 + 2 * i, after its target
RECURSIVE PositionsQualified(_, _)
PositionsQualified(x, r) ==
    \A i \in 1..Len(x.e) :
        LET y == x.e[i]
            v == r.e[2 + 2 * i]
        IN /\ IsSymbol(y) /\ i = 1 => v = Tuple(<<Str(quote), Str(qualify(y.s, TRUE))>>)
           /\ IsSymbol(y) /\ i > 1 =>
                 /\ v = Tuple(<<Str(quote), Str(qualify(y.s, FALSE))>>)
                 /\ ~InvocationQualified(v.e[2].s)
           /\ y.k = "tuple" /\ y.e /= <<>> => PositionsQualified(y, v)

\* C12: in a template a symbol is qualified as an invocation exactly when it
\* is the first element of its tuple; a later element (after a symbol, a
\* number, an unquote or a tuple) and a symbol templated on its own are
\* qualified as no invocation and get no _macro_ and no QzMaybe_ qualifier.
C12_InvocationOnlyFirst ==
    \A k \in 1..Len(templates) :
        LET x == templates[k].form
            r == templates[k].result
        IN ~templates[k].raised =>
              /\ IsSymbol(x) =>
                    /\ r = Tuple(<<Str(quote), Str(qualify(x.s, FALSE))>>)
                    /\ ~InvocationQualified(r.e[2].s)
              /\ x.k = "tuple" /\ x.e /= <<>> => PositionsQualified(x, r)

\* the macro a was templated as the first and as the second element of a
\* tuple: only the first is qualified as a macro
C12_Witness ==
    /\ pc = "done"
    /\ HasMacro(env, <<"a">>)
    /\ \E k \in 1..Len(templates) :
          LET x == templates[k].form
              r == templates[k].result
          IN /\ x.k = "tuple" /\ Len(x.e) = 2
             /\ x.e[1] = Str(<<"a">>) /\ x.e[2] = Str(<<"a">>)
             /\ InvocationQualified(r.e[4].e[2].s)
             /\ ~InvocationQualified(r.e[6].e[2].s)

(***************************************************************************)
(* Control words, alone and templated, with backslash escapes, read and    *)
(* compiled in __main__.                                                    *)
(***************************************************************************)
MaxControl == 4
ControlPieces == {<<":">>, <<"a">>, <<"\\">>, <<".">>, <<" ">>, <<Backtick>>}

InitControl == NoRead /\ IdleCompiler /\ IdleContext /\ IdleThreads

\* Lissp(env=..., evaluate=True).compile(c)
CompileControl ==
    /\ pc = "new"
    /\ \E c \in Texts(ControlPieces, MaxControl) :
          Reads("lissp1", c, CompileEnv(__main__), "compile")

NextControl ==
    \/ CompileControl
    \/ WhitespaceToken
    \/ Template
    \/ Control
    \/ Bare
    \/ ErrorToken
    \/ CompileForm
    \/ Exec
    \/ SysExit
    \/ StopIteration

SpecControl == InitControl /\ [][NextControl]_vars

\* the text is one control token
IsControlToken(c) == c /= <<>> /\ controlEnd(c, 0) = Len(c)

\* the token's text with each backslash taken away and the character after it
\* kept as it is
RECURSIVE Unslashed(_)
Unslashed(v) ==
    IF v = <<>> THEN <<>>
    ELSE IF v[1] = "\\" /\ Len(v) >= 2 THEN <<v[2]>> \o Unslashed(SubSeq(v, 3, Len(v)))
    ELSE <<v[1]>> \o Unslashed(Tail(v))

\* the control word of a source that is one control token, or a template of
\* one
ControlWord == IF IsControlToken(code) THEN code ELSE Tail(code)

\* C13: a string atom that begins with ":" is left as it is in every
\* position: the reader munges and Quotez-encodes no part of a control
\* token, a template neither quotes nor qualifies it, and the emitter makes
\* a quoted string literal of it, never an import or an identifier.
C13_ControlUntouched ==
    /\ (IsControlToken(code) \/ (StartsWith(code, <<Backtick>>) /\ IsControlToken(Tail(code))))
       /\ out /= <<>>
       => /\ out[1] = Str(Unslashed(ControlWord))
          /\ pc = "exec" => form = Code("atomic", <<>>, <<Str(Unslashed(ControlWord))>>)
    /\ \A k \in 1..Len(log) :
          /\ log[k].op = "compile"
          /\ out[log[k].i].k = "str"
          /\ StartsWith(out[log[k].i].s, <<":">>)
          => log[k].form = Code("atomic", <<>>, <<out[log[k].i]>>)

\* what does hold: the control word is the token with its backslashes
\* processed by Parser.escape, which Quotez-encodes an escaped "." or ":"
C13_ControlEscaped ==
    /\ (IsControlToken(code) \/ (StartsWith(code, <<Backtick>>) /\ IsControlToken(Tail(code))))
       /\ out /= <<>>
       => /\ out[1] = Str(escape(ControlWord))
          /\ pc = "exec" => form = Code("atomic", <<>>, <<Str(escape(ControlWord))>>)
    /\ \A k \in 1..Len(log) :
          /\ log[k].op = "compile"
          /\ out[log[k].i].k = "str"
          /\ StartsWith(out[log[k].i].s, <<":">>)
          => log[k].form = Code("atomic", <<>>, <<out[log[k].i]>>)

\* the control token :a\. was read: it became :aQzDOT_
C13_Witness ==
    /\ code = <<":", "a", "\\", ".">>
    /\ pc = "exec"
    /\ out = <<Str(<<":", "a">> \o force_qz_encode("."))>>

(***************************************************************************)
(* compiler.readerless(form, env) on call forms: heads that are plain,     *)
(* qualified as a macro or as a maybe-macro of this or another module, or  *)
(* method names, with arguments single and paired.                          *)
(***************************************************************************)
MaxReaderless == 1
ReaderlessModules == {__main__, <<"m">>, <<"n","o","m","o","d">>}
ReaderlessHeads ==
    {q \o sep \o n : q \in ReaderlessModules, sep \in {MACRO, MAYBE}, n \in {<<"a">>, <<"b">>}}
    \cup {<<"a">>, <<".", "m">>}
ReaderlessArgs ==
    {<<>>,
     <<Str(<<":">>)>>,
     <<Num(<<"1">>)>>,
     <<Num(<<"1">>), Num(<<"2">>)>>,
     <<Str(<<":">>), Str(PositionalTarget), Num(<<"1">>)>>,
     <<Str(<<":">>), Str(<<"k">>), Num(<<"1">>)>>,
     <<Str(<<":">>), Str(SpliceTarget), Num(<<"1">>), Str(PositionalTarget), Num(<<"2">>)>>,
     <<Str(<<":">>), Str(PositionalTarget), Num(<<"1">>), Str(<<"k">>), Num(<<"2">>)>>,
     <<Num(<<"1">>), Str(<<":">>), Str(<<"k">>), Num(<<"2">>)>>,
     <<Str(<<":">>), Str(PositionalTarget)>>}
ReaderlessEnvs ==
    {new_env(__main__), Env(<<__main__>>, TRUE, {<<"a">>}, {}),
     Env(<<<<"m">>>>, TRUE, {}, {}), Env(<<>>, TRUE, {<<"b">>}, {})}

InitReaderless == NoRead /\ IdleCompiler /\ IdleContext /\ IdleThreads

ReaderlessForms ==
    {Tuple(<<Str(head)>> \o args) : head \in ReaderlessHeads, args \in ReaderlessArgs}

\* compiler.readerless(f, e): Compiler(env=e, evaluate=False).compile([f]),
\* which returns the code of f or raises CompileError with self.error
\* cleared; later calls are given the env of the first
Readerless ==
    /\ pc = "new"
    /\ Len(log) < MaxReaderless
    /\ \E f \in ReaderlessForms, e \in IF log = <<>> THEN ReaderlessEnvs ELSE {env} :
          /\ env' = e
          /\ log' = Append(log, [op |-> "readerless", form |-> f, env |-> e,
                                 code |-> compile_form(f, e),
                                 raised |-> IF HasError(compile_form(f, e))
                                            THEN "CompileError" ELSE ""])
          /\ error' = clear_error(IF HasError(compile_form(f, e)) THEN Exception
                                  ELSE error)
    /\ UNCHANGED <<mode, form, result, abort, warnings>>
    /\ UNCHANGED <<readerVars, contextVars, threadVars>>

NextReaderless == Readerless

SpecReaderless == InitReaderless /\ [][NextReaderless]_vars

\* the arguments are singles and complete pairs
CompletePairs(args) == (Len(args) - FirstColon(args)) % 2 = 0 \/ FirstColon(args) > Len(args)

\* C14: a head <qualname>..QzMaybe_.<name>, qualname being the module's
\* name, for which the module has no macro <name> compiles as the call of
\* <qualname>..<name> with the same arguments and expands no macro; a head
\* <mod>.._macro_.<name> for which no macro is found is a CompileError.
C14_MaybeFallsBack ==
    \A k \in 1..Len(log) :
        LET parts == RE_MACRO_split(log[k].form.e[1].s)
            args == Tail(log[k].form.e)
            found == IF parts[1] = EnvName(log[k].env) THEN HasMacro(log[k].env, parts[3])
                     ELSE ForeignMacro(parts[1], parts[3]) = ""
        IN Len(parts) = 3 /\ ~found =>
              /\ parts[2] = MAYBE /\ parts[1] = EnvName(log[k].env) /\ CompletePairs(args) =>
                    /\ log[k].raised = ""
                    /\ log[k].code.k = "call"
                    /\ log[k].code = call(Tuple(<<Str(parts[1] \o <<".", ".">> \o parts[3])>>
                                                \o args), log[k].env)
                    /\ log[k].code.e[1] = fragment(parts[1] \o <<".", ".">> \o parts[3])
              /\ parts[2] = MACRO => log[k].raised = "CompileError"

\* (__main__..QzMaybe_.b 1 : k 2) was compiled in a __main__ that has the
\* macro a only: it is the call of __main__..b
C14_Witness ==
    /\ Len(log) = 1
    /\ pc = "new"
    /\ log[1].form = Tuple(<<Str(__main__ \o MAYBE \o <<"b">>), Num(<<"1">>), Str(<<":">>),
                             Str(<<"k">>), Num(<<"2">>)>>)
    /\ log[1].env = Env(<<__main__>>, TRUE, {<<"a">>}, {})
    /\ log[1].code = Code("call", <<>>,
                          <<Code("globals", <<"b">>, <<>>),
                            Code("arg", <<>>, <<atomic(Num(<<"1">>))>>),
                            Code("arg", <<"k", "=">>, <<atomic(Num(<<"2">>))>>)>>)

\* the code of the arguments args of a call, in their order: the singles,
\* then each pair's value under its target
ArgumentCodes(args, e) ==
    LET colon == FirstColon(args)
        paired == SubSeq(args, colon + 1, Len(args))
    IN [i \in 1..(colon - 1) |-> Code("arg", <<>>, <<compile_form(args[i], e)>>)]
       \o [i \in 1..(Len(paired) \div 2) |->
              Code("arg", _pair_target(paired[2 * i - 1].s), <<compile_form(paired[2 * i], e)>>)]

\* C20: a call form whose head is a str that begins with "." compiles to a
\* method call on its first positional argument: the first single, or the
\* value of the first pair when that pair's target is ":?"; the other
\* arguments follow in their order.  With no single and a first pair of
\* another target, and with no argument at all, it is a CompileError.
C20_MethodOfFirstPositional ==
    \A k \in 1..Len(log) :
        LET head == log[k].form.e[1].s
            args == Tail(log[k].form.e)
            colon == FirstColon(args)
            codes == ArgumentCodes(args, log[k].env)
        IN StartsWith(head, <<".">>) /\ CompletePairs(args) =>
              IF colon > 1 \/ (colon + 1 <= Len(args) /\ args[colon + 1] = Str(PositionalTarget))
              THEN /\ log[k].raised = ""
                   /\ log[k].code.k = "method"
                   /\ log[k].code.s = Tail(head)
                   /\ log[k].code.e[1] = compile_form(IF colon > 1 THEN args[1]
                                                      ELSE args[colon + 2], log[k].env)
                   /\ Tail(log[k].code.e) = Tail(codes)
              ELSE log[k].raised = "CompileError"

\* (.m : :? 1 k 2) was compiled: it is the method m of 1, called with k=2
C20_Witness ==
    /\ Len(log) = 1
    /\ pc = "new"
    /\ log[1].form = Tuple(<<Str(<<".", "m">>), Str(<<":">>), Str(PositionalTarget),
                             Num(<<"1">>), Str(<<"k">>), Num(<<"2">>)>>)
    /\ log[1].code = Code("method", <<"m">>,
                          <<atomic(Num(<<"1">>)),
                            Code("arg", <<"k", "=">>, <<atomic(Num(<<"2">>))>>)>>)

(***************************************************************************)
(* compiler.macroexpand1, macroexpand and macroexpand_all, with the         *)
(* default preprocess and postprocess.  The value of each is the form it    *)
(* returns, or that it raised.                                              *)
(***************************************************************************)
Returns(f) == [form |-> f, raised |-> FALSE]
Raises == [form |-> Tuple(<<>>), raised |-> TRUE]

\* Compiler.get_macro
get_macro(symbol, e) ==
    IF ~is_str(symbol) \/ StartsWith(symbol.s, <<":">>) THEN NoMacro
    ELSE _get_macro(symbol.s, e)

\* compiler.macroexpand1
macroexpand1(f, e) ==
    IF ~is_node(f) \/ f.e[1] \in {Str(quote), Str(lambda)} THEN Returns(f)
    ELSE IF get_macro(f.e[1], e).k = "none" THEN Returns(f)
    ELSE IF get_macro(f.e[1], e).k = "raise" THEN Raises
    ELSE IF MacroRaises(get_macro(f.e[1], e).name) THEN Raises
    ELSE Returns(MacroCall(Tail(f.e)))

\* a macroexpand that expands once
macroexpand_once(f, e) == macroexpand1(f, e)

\* compiler.macroexpand: until macroexpand1 returns the form it was given
RECURSIVE macroexpand(_, _)
macroexpand(f, e) ==
    LET expanded == macroexpand1(f, e)
    IN IF expanded.raised THEN Raises
       ELSE IF expanded.form = f THEN Returns(f)
       ELSE macroexpand(expanded.form, e)

\* the iterable xs, which holds x for "x in xs": the elements of a tuple, the
\* characters of a str
Iterate(xs) == IF xs.k = "str" THEN [i \in 1..Len(xs.s) |-> Str(<<xs.s[i]>>)] ELSE xs.e

\* dict(zip(iparams, iparams)), as the pairs in the order of their keys'
\* first places, each key with its last value
DictPairs(paired) ==
    LET n == Len(paired) \div 2
        firsts == {i \in 1..n : \A j \in 1..(i - 1) : paired[2 * j - 1] /= paired[2 * i - 1]}
        last(i) == CHOOSE j \in i..n :
                      /\ paired[2 * j - 1] = paired[2 * i - 1]
                      /\ \A l \in (j + 1)..n : paired[2 * l - 1] /= paired[2 * i - 1]
        RECURSIVE from(_)
        from(i) == IF i > n THEN <<>>
                   ELSE IF i \in firsts
                   THEN <<paired[2 * i - 1], paired[2 * last(i)]>> \o from(i + 1)
                   ELSE from(i + 1)
    IN from(1)

\* every form of fs was returned
AllReturned(rs) == \A i \in 1..Len(rs) : ~rs[i].raised

RECURSIVE macroexpand_all(_, _)
RECURSIVE _pexpand(_, _)

\* compiler._pexpand: the parameters, with the default of each pair that has
\* one expanded
_pexpand(params, e) ==
    IF params.k \notin {"str", "tuple"} THEN Raises
    ELSE IF params.k = "tuple" /\ ~(\E i \in 1..Len(params.e) : params.e[i] = Str(<<":">>))
    THEN Returns(params)
    ELSE IF params.k = "str" /\ ~(\E i \in 1..Len(params.s) : params.s[i] = ":")
    THEN Returns(params)
    ELSE LET items == Iterate(params)
             colon == FirstColon(items)
             paired == SubSeq(items, colon + 1, Len(items))
             pairs == DictPairs(paired)
             rs == [i \in 1..Len(pairs) |->
                       IF i % 2 = 1 \/ pairs[i - 1] \in {Str(SpliceTarget), Str(<<":", "*", "*">>)}
                       THEN Returns(pairs[i])
                       ELSE macroexpand_all(pairs[i], e)]
         IN IF Len(paired) % 2 = 1 THEN Raises
            ELSE IF \A i \in 1..(Len(pairs) \div 2) :
                       pairs[2 * i - 1] \in {Str(SpliceTarget), Str(<<":", "*", "*">>)}
            THEN Returns(params)
            ELSE IF ~AllReturned(rs) THEN Raises
            ELSE Returns(Tuple(SubSeq(items, 1, colon - 1) \o <<Str(<<":">>)>>
                               \o [i \in 1..Len(rs) |-> rs[i].form]))

\* compiler.macroexpand_all
macroexpand_all(f, e) ==
    LET exp == macroexpand(f, e)
    IN IF exp.raised THEN Raises
       ELSE IF ~is_node(exp.form) \/ exp.form.e[1] = Str(quote) THEN exp
       ELSE IF exp.form.e[1] /= Str(lambda)
       THEN LET rs == [i \in 1..Len(exp.form.e) |-> macroexpand_all(exp.form.e[i], e)]
            IN IF AllReturned(rs) THEN Returns(Tuple([i \in 1..Len(rs) |-> rs[i].form]))
               ELSE Raises
       ELSE IF Len(exp.form.e) < 2 THEN Raises
       ELSE LET ps == _pexpand(exp.form.e[2], e)
                rs == [i \in 1..(Len(exp.form.e) - 2) |-> macroexpand_all(exp.form.e[i + 2], e)]
            IN IF ps.raised \/ ~AllReturned(rs) THEN Raises
               ELSE Returns(Tuple(<<Str(lambda), ps.form>>
                                  \o [i \in 1..Len(rs) |-> rs[i].form]))

MaxExpand == 1
\* forms to expand: 1, (a) and (a (b 1)); calls of macros, of a function f
\* and of qualified heads; quoted forms; lambdas whose parameters are
\* singles, pairs with defaults, and pairs under :* and :**
ExpandSmall ==
    {Num(<<"1">>), Tuple(<<Str(<<"a">>)>>),
     Tuple(<<Str(<<"a">>), Tuple(<<Str(<<"b">>), Num(<<"1">>)>>)>>)}
ExpandHeads ==
    {<<"a">>, <<"b">>, <<"r">>, <<"f">>, __main__ \o MAYBE \o <<"a">>,
     <<"m">> \o MACRO \o <<"a">>, __main__ \o MACRO \o <<"b">>}
ExpandCalls ==
    {Tuple(<<Str(h)>> \o args) :
        h \in ExpandHeads,
        args \in {<<>>} \cup {<<x>> : x \in ExpandSmall}
                 \cup {<<Str(<<":">>), Str(SpliceTarget), x>> : x \in ExpandSmall}}
ExpandQuotes ==
    {Tuple(<<Str(quote), x>>) : x \in ExpandSmall}
    \cup {Tuple(<<Str(h), Tuple(<<Str(quote), x>>), x>>) : h \in {<<"a">>, <<"f">>}, x \in ExpandSmall}
ExpandParams ==
    {Tuple(<<>>), Tuple(<<Str(<<"a">>)>>), Tuple(<<Str(<<"a">>), Str(<<"b">>)>>),
     Tuple(<<Str(<<"a">>), Str(<<":">>)>>)}
    \cup UNION {{Tuple(<<Str(<<"a">>), Str(<<":">>), Str(<<"b">>), x>>),
                 Tuple(<<Str(<<":">>), Str(SpliceTarget), x>>),
                 Tuple(<<Str(<<":">>), Str(<<":", "*", "*">>), x>>),
                 Tuple(<<Str(<<"a">>), Str(<<":">>), Str(<<"b">>), x, Str(SpliceTarget), x>>),
                 Tuple(<<Str(<<":">>), Str(<<"a">>), Str(PositionalTarget), Str(<<"b">>), x>>),
                 Tuple(<<Str(<<":">>), Str(<<"b">>), x, Str(<<":", "*", "*">>), x>>),
                 Tuple(<<Str(<<":">>), Str(<<"a">>), Num(<<"1">>), Str(<<"a">>), x>>)} :
                x \in ExpandSmall}
ExpandLambdas ==
    {Tuple(<<Str(lambda), ps>> \o b) :
        ps \in ExpandParams, b \in {<<>>} \cup {<<x>> : x \in ExpandSmall}}
    \cup {Tuple(<<Str(lambda)>>)}
ExpandForms == ExpandSmall \cup ExpandCalls \cup ExpandQuotes \cup ExpandLambdas
ExpandEnvs ==
    {new_env(__main__), Env(<<__main__>>, TRUE, {<<"a">>}, {}),
     Env(<<__main__>>, TRUE, {<<"a">>, <<"b">>, <<"r">>}, {})}

InitExpand == NoRead /\ IdleCompiler /\ IdleContext /\ IdleThreads

\* compiler.macroexpand(f, e); later calls are given the env of the first
Macroexpand ==
    /\ pc = "new"
    /\ Len(log) < MaxExpand
    /\ \E f \in ExpandForms, e \in IF log = <<>> THEN ExpandEnvs ELSE {env} :
          /\ env' = e
          /\ log' = Append(log, [op |-> "macroexpand", form |-> f, env |-> e,
                                 result |-> macroexpand(f, e)])
    /\ UNCHANGED <<mode, form, result>>
    /\ UNCHANGED <<readerVars, contextVars, threadVars, flagVars>>

\* compiler.macroexpand_all(f, e); later calls are given the env of the first
Macroexpand_all ==
    /\ pc = "new"
    /\ Len(log) < MaxExpand
    /\ \E f \in ExpandForms, e \in IF log = <<>> THEN ExpandEnvs ELSE {env} :
          /\ env' = e
          /\ log' = Append(log, [op |-> "macroexpand_all", form |-> f, env |-> e,
                                 result |-> macroexpand_all(f, e)])
    /\ UNCHANGED <<mode, form, result>>
    /\ UNCHANGED <<readerVars, contextVars, threadVars, flagVars>>

NextExpand ==
    \/ Macroexpand
    \/ Macroexpand_all

SpecExpand == InitExpand /\ [][NextExpand]_vars

\* C15: what macroexpand returns is a fixed point: macroexpand1 returns it
\* unchanged, and so does macroexpand.
C15_FixedPoint ==
    \A k \in 1..Len(log) :
        log[k].op = "macroexpand" /\ ~log[k].result.raised =>
            /\ macroexpand1(log[k].result.form, log[k].env) = Returns(log[k].result.form)
            /\ macroexpand(log[k].result.form, log[k].env) = log[k].result

\* (a (a (b 1))) was expanded where a and b are macros: to (a (b 1)), to
\* (b 1), to 1
C15_Witness ==
    /\ Len(log) = 1
    /\ log[1].op = "macroexpand"
    /\ HasMacro(log[1].env, <<"b">>)
    /\ log[1].form = Tuple(<<Str(<<"a">>),
                             Tuple(<<Str(<<"a">>), Tuple(<<Str(<<"b">>), Num(<<"1">>)>>)>>)>>)
    /\ log[1].result = Returns(Num(<<"1">>))

\* the parameters rp are the parameters ps with nothing but the defaults
\* expanded: as many elements, the same singles and ":", the same name or
\* target in each pair, the same value after :* and :**
ParametersKept(ps, rp, e) ==
    LET colon == FirstColon(ps.e)
    IN /\ rp.k = "tuple"
       /\ Len(rp.e) = Len(ps.e)
       /\ \A i \in 1..Len(ps.e) :
             IF i <= colon \/ (i - colon) % 2 = 1
                \/ ps.e[i - 1] \in {Str(SpliceTarget), Str(<<":", "*", "*">>)}
             THEN rp.e[i] = ps.e[i]
             ELSE rp.e[i] = macroexpand_all(ps.e[i], e).form

\* what macroexpand_all returned for log[k] keeps what is to be kept and
\* expands what is to be expanded
ExpandedInPlace(k) ==
    LET f == log[k].form
        r == log[k].result.form
        e == log[k].env
    IN log[k].op = "macroexpand_all" /\ ~log[k].result.raised /\ is_node(f) =>
          /\ f.e[1] = Str(quote) => r = f
          /\ f.e[1] = Str(lambda) =>
                /\ Len(f.e) >= 2
                /\ is_node(r)
                /\ Len(r.e) = Len(f.e)
                /\ r.e[1] = Str(lambda)
                /\ ParametersKept(f.e[2], r.e[2], e)
                /\ \A i \in 3..Len(f.e) : r.e[i] = macroexpand_all(f.e[i], e).form
          /\ f.e[1] \notin {Str(quote), Str(lambda)} /\ macroexpand1(f, e) = Returns(f) =>
                /\ is_node(r)
                /\ Len(r.e) = Len(f.e)
                /\ \A i \in 1..Len(f.e) : r.e[i] = macroexpand_all(f.e[i], e).form

\* the lambda form f names a parameter twice after its ":"
RepeatedPair(f) ==
    /\ is_node(f)
    /\ f.e[1] = Str(lambda)
    /\ Len(f.e) >= 2
    /\ LET ps == f.e[2].e
           colon == FirstColon(ps)
       IN \E i, j \in (colon + 1)..Len(ps) :
             i < j /\ (i - colon) % 2 = 1 /\ (j - colon) % 2 = 1 /\ ps[i] = ps[j]

\* C16: macroexpand_all leaves a quote form as it is, and in a lambda form
\* the parameter names, the ":", the values paired with :* and :** and the
\* split into singles and pairs (same keys, same order, same count); it
\* expands the defaults of the other pairs and the body forms, and the
\* sub-forms of every other tuple.
C16_ParametersNeverAltered ==
    \A k \in 1..Len(log) : ExpandedInPlace(k)

\* C16, for the lambda forms whose pairs name no parameter twice: the same
\* is kept and the same is expanded.
C16_ParametersAndQuoteKept ==
    \A k \in 1..Len(log) : ~RepeatedPair(log[k].form) => ExpandedInPlace(k)

\* (lambda (a : b (a) :* (a)) (a)) was expanded where a is a macro: the
\* default of b and the body became (), the name a and the value after :*
\* are as they were
C16_Witness ==
    /\ Len(log) = 1
    /\ log[1].op = "macroexpand_all"
    /\ HasMacro(log[1].env, <<"a">>)
    /\ log[1].form =
          Tuple(<<Str(lambda),
                  Tuple(<<Str(<<"a">>), Str(<<":">>), Str(<<"b">>), Tuple(<<Str(<<"a">>)>>),
                          Str(SpliceTarget), Tuple(<<Str(<<"a">>)>>)>>),
                  Tuple(<<Str(<<"a">>)>>)>>)
    /\ log[1].result =
          Returns(Tuple(<<Str(lambda),
                          Tuple(<<Str(<<"a">>), Str(<<":">>), Str(<<"b">>), Tuple(<<>>),
                                  Str(SpliceTarget), Tuple(<<Str(<<"a">>)>>)>>),
                          Tuple(<<>>)>>))

(***************************************************************************)
(* Compiler.tuple_ on forms whose only element is a lambda form: the body   *)
(* of a lambda without parameters is compiled in place of the call.         *)
(***************************************************************************)
MaxProgn == 1
\* body forms: 1, (s 'id), the global id, and (a), a call or a macro
PrognForms ==
    {Num(<<"1">>), Str(<<"i", "d">>), Tuple(<<Str(<<"a">>)>>),
     Tuple(<<Str(setglobal), Tuple(<<Str(quote), Str(<<"i", "d">>)>>)>>)}
PrognBodies ==
    {<<>>} \cup {<<x>> : x \in PrognForms} \cup {<<x, y>> : x, y \in PrognForms}
\* parameters that compile to nothing: (), (:) and ""; parameters that
\* compile to something: (a), (: a 1); and 1, which is no parameters
PrognParams ==
    {Tuple(<<>>), Tuple(<<Str(<<":">>)>>), Str(<<>>), Tuple(<<Str(<<"a">>)>>),
     Tuple(<<Str(<<":">>), Str(<<"a">>), Num(<<"1">>)>>), Num(<<"1">>)}
PrognArgs == {<<>>, <<Num(<<"1">>)>>}
PrognEnvs == {CompileEnv(__main__), Env(<<__main__>>, TRUE, {<<"a">>}, {setglobal})}
PrognForm(params, fs, args) ==
    Tuple(<<Tuple(<<Str(lambda), params>> \o fs)>> \o args)

InitProgn == NoRead /\ IdleCompiler /\ IdleContext /\ IdleThreads

\* readerless(((lambda params body...) args...), e); later calls are given
\* the env of the first
CompileProgn ==
    /\ pc = "new"
    /\ Len(log) < MaxProgn
    /\ \E ps \in PrognParams, fs \in PrognBodies, args \in PrognArgs,
          e \in IF log = <<>> THEN PrognEnvs ELSE {env} :
          /\ env' = e
          /\ log' = Append(log, [op |-> "readerless", env |-> e,
                                 form |-> PrognForm(ps, fs, args),
                                 code |-> compile_form(PrognForm(ps, fs, args), e)])
    /\ UNCHANGED <<mode, form, result>>
    /\ UNCHANGED <<readerVars, contextVars, threadVars, flagVars>>

NextProgn == CompileProgn

SpecProgn == InitProgn /\ [][NextProgn]_vars

\* the code of the call of the lambda form that is the head of f, had it
\* been compiled as any other call
LambdaCalled(f, e) ==
    Code("call", <<>>,
         <<lambda_(f.e[1], e)>>
         \o [i \in 1..(Len(f.e) - 1) |-> Code("arg", <<>>, <<compile_form(f.e[i + 1], e)>>)])

MaxFragment == 4
\* a str atom is at most MaxFragment of these pieces
FragmentPieces == {<<"a">>, <<"m">>, <<"a", ".", "m">>, <<".">>, <<".", ".">>, <<"1">>}
Qualnames == {__main__, <<"m">>, <<"a", ".", "m">>}

InitFragment == NoRead /\ IdleCompiler /\ IdleContext /\ IdleThreads

\* Compiler(qualname)
NewCompiler ==
    /\ pc = "new"
    /\ \E q \in Qualnames : qualname' = q
    /\ pc' = "compiler"
    /\ UNCHANGED <<code, lexer_pos, parser_pos, depth, context, counters, frames, out,
                   err, lissp, blake, template_count, nreads, gensyms, templates,
                   reads_done>>
    /\ UNCHANGED <<compilerVars, contextVars, threadVars, flagVars>>

\* self.fragment(text)
CompileFragment ==
    /\ pc = "compiler"
    /\ log = <<>>
    /\ \E text \in Texts(FragmentPieces, MaxFragment) \ {<<>>} :
          log' = Append(log, [op |-> "fragment", text |-> text, qualname |-> qualname,
                              code |-> fragment(text),
                              emitted |-> fragment_text(fragment(text))])
    /\ UNCHANGED <<env, mode, form, result>>
    /\ UNCHANGED <<readerVars, contextVars, threadVars, flagVars>>

NextFragment ==
    \/ NewCompiler
    \/ CompileFragment

SpecFragment == InitFragment /\ [][NextFragment]_vars

\* the text is names joined by dots (any number of them, and no three in a
\* row)
DottedChain(text) ==
    /\ ~Contains(text, <<".", ".", ".">>)
    /\ \A i \in 1..Len(SplitDots(text)) :
          SplitDots(text)[i] = <<>> \/ isidentifier(SplitDots(text)[i])

MaxMunge == 4
\* a text is at most MaxMunge of these pieces
MungePieces == {<<"Q", "z">>, <<"_">>, <<"D", "O", "T">>, <<"H">>, <<"-">>, <<".">>,
                <<"a">>, <<"1">>, <<":">>, <<"\n">>}

InitMunge == NoRead /\ IdleCompiler /\ IdleContext /\ IdleThreads

\* x = munge(s); demunge(x); munge(demunge(x))
MungeDemunge ==
    /\ log = <<>>
    /\ \E s \in Texts(MungePieces, MaxMunge) :
       \E x \in {munge(s)} :
       \E d \in {demunge(x)} :
          log' = Append(log, [op |-> "munge", s |-> s, munged |-> x, demunged |-> d,
                              remunged |-> munge(d)])
    /\ UNCHANGED <<env, mode, form, result>>
    /\ UNCHANGED <<readerVars, contextVars, threadVars, flagVars>>

NextMunge == MungeDemunge

SpecMunge == InitMunge /\ [][NextMunge]_vars

\* C23: munge(demunge(munge(s))) is munge(s), for every text s
C23_MungeIsStable ==
    \A k \in 1..Len(log) :
        log[k].op = "munge" => log[k].remunged = log[k].munged

\* C24: demunge(munge(s)) is s for every text s without the bigram Qz,
\* also when s starts with a digit, holds a dot, or holds characters encoded
\* by their Unicode name or their ordinal
C24_DemungeInvertsMunge ==
    \A k \in 1..Len(log) :
        (log[k].op = "munge" /\ ~Contains(log[k].s, <<"Q", "z">>))
            => log[k].demunged = log[k].s

\* 1.:\n was munged by Unicode name and by ordinal, after a first digit and
\* around a dot, and demunged to itself
C24_Witness ==
    /\ Len(log) = 1
    /\ log[1].s = <<"1", ".", ":", "\n">>
    /\ log[1].munged = QUOTEZ(UNICODE_NAME["1"]) \o <<".">> \o QUOTEZ(UNICODE_NAME[":"])
                       \o QUOTEZ(ORDINAL["\n"])
    /\ log[1].demunged = log[1].s

(***************************************************************************)
(* Compiler.atomic on object graphs.  A heap gives each object its kind    *)
(* and the ids of its elements, so that two places can hold one object and *)
(* a list or a dict can hold itself; the form compiled is object 1.  A     *)
(* dict has the key 0.  Text is kept as its syntax tree.                    *)
(***************************************************************************)
MaxObjects == 3
MaxElements == 2
ObjectIds == 1..MaxObjects
Obj(k, e) == [k |-> k, e |-> e]
\* 1, float('nan'), ..., an instance of a class without __eq__, a lambda
LeafKinds == {"int", "nan", "Ellipsis", "instance", "function"}
ElementIds(n) == UNION {[1..m -> ObjectIds] : m \in 0..n}
HeapObjects ==
    {Obj(k, <<>>) : k \in LeafKinds}
    \cup {Obj(k, e) : k \in {"list", "tuple"}, e \in ElementIds(MaxElements)}
    \cup {Obj(k, e) : k \in {"dict", "set"}, e \in ElementIds(1)}

\* the objects that i holds, directly or not, in at most n steps
RECURSIVE Held(_, _, _)
Held(h, i, n) ==
    IF n = 0 THEN {}
    ELSE LET direct == {h[i].e[j] : j \in 1..Len(h[i].e)}
         IN direct \cup UNION {Held(h, c, n - 1) : c \in direct}

\* a tuple or a set is built from objects that exist, so no tuple holds
\* itself through tuples alone, and the element of a set is hashable;
\* objects that the form does not hold are left as 1
RECURSIVE HeldByTuples(_, _, _)
HeldByTuples(h, i, n) ==
    IF n = 0 \/ h[i].k /= "tuple" THEN {}
    ELSE LET direct == {h[i].e[j] : j \in 1..Len(h[i].e)}
         IN direct \cup UNION {HeldByTuples(h, c, n - 1) : c \in direct}

Heaps ==
    {h \in [ObjectIds -> HeapObjects] :
        /\ \A i \in ObjectIds : i \notin HeldByTuples(h, i, MaxObjects)
        /\ \A i \in ObjectIds :
              h[i].k = "set" => \A j \in 1..Len(h[i].e) : h[h[i].e[j]].k \in {"int", "nan"}
        /\ \A i \in ObjectIds \ ({1} \cup Held(h, 1, MaxObjects)) : h[i] = Obj("int", <<>>)}

\* a piece of Python text: a constant, a name, a display of elements, a
\* parenthesized expression, a call, text that is no expression, or the
\* pickle expression with its payload
NoPayload == [k |-> "", n |-> 0, e |-> <<>>]
Ast(k, s, e) == [k |-> k, s |-> s, e |-> e, p |-> NoPayload]
\* None
None == Obj("None", <<>>)

\* pprint.pformat(form): _safe_repr writes the elements of dicts, lists and
\* tuples, a marker that is no Python for one that holds itself, and the
\* repr of everything else
RECURSIVE pformat(_, _, _)
pformat(h, i, inside) ==
    LET o == h[i]
    IN CASE o.k = "int" -> Ast("Constant", "1", <<>>)
         [] o.k = "nan" -> Ast("Name", "nan", <<>>)
         [] o.k = "Ellipsis" -> Ast("Name", "Ellipsis", <<>>)
         [] o.k \in {"instance", "function"} -> Ast("Invalid", "<object>", <<>>)
         [] o.k = "set" ->
              IF o.e = <<>> THEN Ast("Call", "set", <<>>)
              ELSE Ast("set", "", <<pformat(h, o.e[1], inside)>>)
         [] OTHER ->
              IF o.e = <<>> THEN Ast(o.k, "", <<>>)
              ELSE IF i \in inside THEN Ast("Invalid", "<Recursion>", <<>>)
              ELSE Ast(o.k, "", [j \in 1..Len(o.e) |-> pformat(h, o.e[j], inside \cup {i})])

\* Compiler._format_repr(case, form)
_format_repr(h, i) ==
    IF h[i].k \in {"int"} THEN Ast("Paren", "", <<Ast("Constant", "1", <<>>)>>)
    ELSE pformat(h, i, {})

\* ast.literal_eval(literal) returns: the text is made of constants,
\* displays, parentheses and set() only
RECURSIVE Literal(_)
Literal(a) ==
    CASE a.k = "Constant" -> TRUE
      [] a.k = "Call" -> a.s = "set" /\ a.e = <<>>
      [] a.k \in {"list", "tuple", "dict", "set", "Paren"} ->
           \A j \in 1..Len(a.e) : Literal(a.e[j])
      [] OTHER -> FALSE

\* what it returns: every display is a new object
RECURSIVE literal_value(_)
literal_value(a) ==
    CASE a.k = "Constant" -> Obj(IF a.s = "..." THEN "Ellipsis" ELSE "int", <<>>)
      [] a.k = "Call" -> Obj("set", <<>>)
      [] a.k = "Paren" -> literal_value(a.e[1])
      [] OTHER -> Obj(a.k, [j \in 1..Len(a.e) |-> literal_value(a.e[j])])

\* Compiler._try_eval(literal): None when literal_eval raises ValueError or
\* SyntaxError
_try_eval(literal) == IF Literal(literal) THEN literal_value(literal) ELSE None

\* evaled == form, for the value of a literal
RECURSIVE Equals(_, _, _)
Equals(t, h, i) ==
    /\ t.k = h[i].k
    /\ t.k \notin {"nan", "instance", "function"}
    /\ Len(t.e) = Len(h[i].e)
    /\ \A j \in 1..Len(t.e) : Equals(t.e[j], h, h[i].e[j])

\* pickle keeps a memo of the objects it wrote, except numbers and the
\* empty tuple, and writes a second reference as a GET of the first
Memoized(o) == o.k \in {"list", "dict", "set", "instance"} \/ (o.k = "tuple" /\ o.e /= <<>>)
GET(n) == [k |-> "GET", n |-> n, e |-> <<>>]

\* pickle.dumps of object i after the objects of memo: the payload and the
\* memo after it
RECURSIVE Save(_, _, _)
RECURSIVE SaveAll(_, _, _)
Save(h, i, memo) ==
    IF \E n \in 1..Len(memo) : memo[n] = i
    THEN [p |-> GET(CHOOSE n \in 1..Len(memo) : memo[n] = i), memo |-> memo]
    ELSE LET m1 == IF Memoized(h[i]) THEN Append(memo, i) ELSE memo
             rest == SaveAll(h, h[i].e, m1)
         IN [p |-> [k |-> h[i].k, n |-> IF Memoized(h[i]) THEN Len(m1) ELSE 0, e |-> rest.ps],
             memo |-> rest.memo]

SaveAll(h, ids, memo) ==
    IF ids = <<>> THEN [ps |-> <<>>, memo |-> memo]
    ELSE LET first == Save(h, Head(ids), memo)
             rest == SaveAll(h, Tail(ids), first.memo)
         IN [ps |-> <<first.p>> \o rest.ps, memo |-> rest.memo]

\* pickle.dumps of the value of a literal, every object of which is held
\* once: the payload and the memo numbers used
RECURSIVE SaveTree(_, _)
RECURSIVE SaveTrees(_, _)
SaveTree(t, n) ==
    LET n1 == IF Memoized(t) THEN n + 1 ELSE n
        rest == SaveTrees(t.e, n1)
    IN [p |-> [k |-> t.k, n |-> IF Memoized(t) THEN n1 ELSE 0, e |-> rest.ps], n |-> rest.n]

SaveTrees(ts, n) ==
    IF ts = <<>> THEN [ps |-> <<>>, n |-> n]
    ELSE LET first == SaveTree(Head(ts), n)
             rest == SaveTrees(Tail(ts), first.n)
         IN [ps |-> <<first.p>> \o rest.ps, n |-> rest.n]

\* the error text that _trace returns in place of an exception, self.error
\* being set
Traceback == Ast("error", "(>   >  > >>", <<>>)
Loads(p) == [k |-> "loads", s |-> "__import__('pickle').loads", e |-> <<>>, p |-> p]

\* Compiler.pickle(form); pickle.dumps raises for a lambda
pickle(h, i) ==
    IF \E c \in {i} \cup Held(h, i, MaxObjects) : h[c].k = "function" THEN Traceback
    ELSE Loads(Save(h, i, <<>>).p)

\* Compiler.pickle(evaled)
pickle_evaled(evaled) == Loads(SaveTree(evaled, 0).p)

\* _collection without the comparison of the pickles
_collection_unchecked(h, i) ==
    LET pretty == pformat(h, i, {})
    IN IF Equals(_try_eval(pretty), h, i) THEN pretty ELSE pickle(h, i)

\* Compiler._collection(form)
_collection(h, i) ==
    LET pickled == pickle(h, i)
        pretty == pformat(h, i, {})
        evaled == _try_eval(pretty)
    IN IF Equals(evaled, h, i) /\ pickled = pickle_evaled(evaled) THEN pretty
       ELSE pickled

\* Compiler.atomic(form), with Compiler._lisp_normal_form(form) for a tuple
\* that is not empty
RECURSIVE atomic_text(_, _)
atomic_text(h, i) ==
    LET case == h[i].k
    IN IF case = "Ellipsis" THEN Ast("Constant", "...", <<>>)
       ELSE IF case = "set" /\ h[i].e = <<>> THEN Ast("Starred", "{*''}", <<>>)
       ELSE IF case = "tuple" /\ h[i].e /= <<>>
       THEN Ast("tuple", "", [j \in 1..Len(h[i].e) |-> atomic_text(h, h[i].e[j])])
       ELSE IF case \in {"dict", "list", "set"} THEN _collection(h, i)
       ELSE LET literal == _format_repr(h, i)
            IN IF Equals(_try_eval(literal), h, i) THEN literal ELSE pickle(h, i)

\* the text holds the error text of _trace
RECURSIVE HasTraceback(_)
HasTraceback(a) == a.k = "error" \/ \E j \in 1..Len(a.e) : HasTraceback(a.e[j])

\* the text holds no pickle expression and no error text
RECURSIVE IsLiteral(_)
IsLiteral(a) == a.k \notin {"loads", "error"} /\ \A j \in 1..Len(a.e) : IsLiteral(a.e[j])

\* eval(text) of a literal text: as literal_eval, and {*''} is the empty set
RECURSIVE eval_literal(_)
eval_literal(a) ==
    CASE a.k = "Starred" -> Obj("set", <<>>)
      [] a.k \in {"Constant", "Call"} -> literal_value(a)
      [] a.k = "Paren" -> eval_literal(a.e[1])
      [] OTHER -> Obj(a.k, [j \in 1..Len(a.e) |-> eval_literal(a.e[j])])

\* the first outcome that is not "True"
FirstFailure(outcomes) ==
    IF \E j \in 1..Len(outcomes) : outcomes[j] /= "True"
    THEN outcomes[CHOOSE j \in 1..Len(outcomes) :
                      /\ outcomes[j] /= "True"
                      /\ \A l \in 1..(j - 1) : outcomes[l] = "True"]
    ELSE "True"

\* the payloads below p
RECURSIVE Payloads(_)
Payloads(p) == {p} \cup UNION {Payloads(p.e[j]) : j \in 1..Len(p.e)}

\* pickle.loads(payload) == form, at the object that the payload p of root
\* loads and object i: a float nan equals no other object, an instance equals
\* itself only, elements are compared in order, and comparing a pair of
\* objects while comparing that same pair does not end
RECURSIVE LoadedEquals(_, _, _, _, _)
LoadedEquals(root, p, h, i, busy) ==
    IF p.k = "GET"
    THEN LoadedEquals(root, CHOOSE q \in Payloads(root) : q.k /= "GET" /\ q.n = p.n, h, i, busy)
    ELSE IF p.k /= h[i].k \/ Len(p.e) /= Len(h[i].e) THEN "False"
    ELSE IF p.k \in {"nan", "instance"} THEN "False"
    ELSE IF p.e = <<>> THEN "True"
    ELSE IF <<p.n, i>> \in busy THEN "RecursionError"
    ELSE FirstFailure([j \in 1..Len(p.e) |->
                          LoadedEquals(root, p.e[j], h, h[i].e[j], busy \cup {<<p.n, i>>})])

\* eval(text) == form
RECURSIVE ValueEquals(_, _, _)
ValueEquals(a, h, i) ==
    IF HasTraceback(a) THEN "SyntaxError"
    ELSE IF a.k = "loads" THEN LoadedEquals(a.p, a.p, h, i, {})
    ELSE IF IsLiteral(a) THEN (IF Equals(eval_literal(a), h, i) THEN "True" ELSE "False")
    ELSE IF a.k /= h[i].k \/ Len(a.e) /= Len(h[i].e) THEN "False"
    ELSE FirstFailure([j \in 1..Len(a.e) |-> ValueEquals(a.e[j], h, h[i].e[j])])

InitAtomic == NoRead /\ IdleCompiler /\ IdleContext /\ IdleThreads

\* Compiler().atomic(form), and the eval of its text
CompileAtomic ==
    /\ log = <<>>
    /\ \E h \in Heaps :
       \E text \in {atomic_text(h, 1)} :
          /\ log' = Append(log, [op |-> "atomic", h |-> h, text |-> text,
                                 equal |-> ValueEquals(text, h, 1)])
          /\ error' = IF HasTraceback(text) THEN Exception ELSE error
    /\ UNCHANGED <<env, mode, form, result, abort, warnings>>
    /\ UNCHANGED <<readerVars, contextVars, threadVars>>

NextAtomic == CompileAtomic

SpecAtomic == InitAtomic /\ [][NextAtomic]_vars

\* the form is an atom: anything but a tuple that is not empty
IsAtom(h) == ~(h[1].k = "tuple" /\ h[1].e /= <<>>)

\* the form and the objects it holds
Graph(h) == {1} \cup Held(h, 1, MaxObjects)

\* == cannot find the form equal to a copy of it: it holds a nan, an
\* instance of a class without __eq__, or an object that holds itself
Incomparable(h) ==
    \E c \in Graph(h) : h[c].k \in {"nan", "instance"} \/ c \in Held(h, c, MaxObjects)

\* a literal text evaluates to a value equal to the atom, and with the same
\* object graph when the atom is a dict, a list or a set
LiteralIsFaithful(h, text) ==
    IsLiteral(text) =>
        /\ Equals(eval_literal(text), h, 1)
        /\ h[1].k \in {"dict", "list", "set"}
              => SaveTree(eval_literal(text), 0).p = Save(h, 1, <<>>).p

MaxTags == 3
TagPieces == {<<"(">>, <<")">>, <<"a", " ">>, <<"t", "#">>, <<"u", "#">>,
              <<"m", ".", ".", "t", "#">>,
              builtins \o <<".", ".", "f", "l", "o", "a", "t", "#">>,
              builtins \o <<".", ".", "u", "#">>}
\* an environment without _macro_, and one whose _macro_ has the tag t#
TagEnvs == {new_env(__main__),
            Env(<<__main__>>, TRUE, {LocalTagName(<<"t">>)}, {})}

InitTag == NoRead /\ IdleCompiler /\ IdleContext /\ IdleThreads

\* list(Lissp(env=e).reads(c))
ReadsTags ==
    /\ pc = "new"
    /\ \E c \in Texts(TagPieces, MaxTags) : \E e \in TagEnvs : Reads("lissp1", c, e, "reads")

NextTag ==
    \/ ReadsTags
    \/ WhitespaceToken
    \/ Open
    \/ Close
    \/ Tag
    \/ Bare
    \/ EndOfTokens
    \/ StopIteration

SpecTag == InitTag /\ [][NextTag]_vars

\* the activation of Parser._tag that the next form reaches, when that form
\* is its last argument: the innermost activation when the next token is an
\* atom, the one under the tuple when it is the ")" of a tuple
TagFrames ==
    IF pc /= "read" \/ frames = <<>> THEN <<>>
    ELSE LET at == IF Pulls("bare") THEN Len(frames)
                   ELSE IF Pulls("close") /\ Last(frames).kind = "open" THEN Len(frames) - 1
                   ELSE 0
         IN IF at = 0 THEN <<>>
            ELSE IF frames[at].kind = "tag" /\ Len(frames[at].args) + 1 = frames[at].arity
            THEN <<frames[at]>>
            ELSE IF frames[at].kind = "pull" /\ frames[at].tok = "tag"
                    /\ TagArity(frames[at].v) = 1
            THEN <<frames[at]>>
            ELSE <<>>

\* the label of that tag
TagLabel == _label(TagArity(TagFrames[1].v), TagFrames[1].v)

\* the label is looked up in env[MACROS] and is not there
UnknownLocal ==
    /\ TagFrames /= <<>>
    /\ ~Contains(TagLabel, <<".", ".">>)
    /\ ~(env.has_macros /\ (TagLabel \o munge(<<"#">>)) \in env.macros)

\* the label is module..name, and the module or the name does not exist
UnknownQualified ==
    /\ TagFrames /= <<>>
    /\ Contains(TagLabel, <<".", ".">>)
    /\ \/ ModuleOf(TagLabel) \notin DOMAIN Importable
       \/ FunctionOf(TagLabel) \notin Importable[ModuleOf(TagLabel)]

\* the read ends in a SyntaxError that is not soft, and no form was added
\* to those read before
HardSyntaxError ==
    /\ pc' = "raised"
    /\ err'.type = "SyntaxError"
    /\ out' = out

AfterUnknownTag == (UnknownLocal \/ UnknownQualified) => HardSyntaxError

\* C26 as stated: once the arguments of a tag that resolves to no function
\* have been read, a SyntaxError that is not soft is raised and no tag
\* function is called, whether the tag is looked up in _macro_ or is
\* module..name
C26_UnknownTagIsHard == [][AfterUnknownTag]_vars

AfterUnknownLocalTag ==
    /\ UnknownLocal => HardSyntaxError /\ err'.msg = "unknown tag"
    /\ UnknownQualified =>
          /\ pc' = "raised"
          /\ err'.type \in {"ModuleNotFoundError", "AttributeError"}
          /\ out' = out

\* C26 for the tags looked up in _macro_: the SyntaxError 'unknown tag'; a
\* tag module..name that does not resolve ends the read with the
\* ModuleNotFoundError or the AttributeError of the lookup
C26_UnknownLocalTagIsHard == [][AfterUnknownLocalTag]_vars

\* (m..t#a) was read up to the atom: the module m was not found
C26_Witness ==
    /\ pc = "raised"
    /\ code = <<"(", "m", ".", ".", "t", "#", "a", " ">>
    /\ err.type = "ModuleNotFoundError"
    /\ out = <<>>

(***************************************************************************)
(* The stacks of the Parser and the activations in progress.                *)
(***************************************************************************)
\* what the activations of _template and _unquote in progress have pushed
\* on self.context, outermost first
RECURSIVE FrameMarkers(_)
FrameMarkers(fr) ==
    IF fr = <<>> THEN <<>>
    ELSE IF Last(fr).kind = "pull" /\ Last(fr).tok = "template"
    THEN Append(FrameMarkers(Front(fr)), Backtick)
    ELSE IF Last(fr).kind = "pull" /\ Last(fr).tok = "unquote"
    THEN Append(FrameMarkers(Front(fr)), ",")
    ELSE FrameMarkers(Front(fr))

\* every push of an activation that ended, by a return or by an exception,
\* was undone: the stacks hold the pushes of the activations in progress
StacksRestored ==
    /\ context = FrameMarkers(frames)
    /\ Len(counters) = Count(FrameMarkers(frames), Backtick)

\* C27 as stated: when the reading of a template or of an unquote has
\* ended, by a return or by any exception, the context and counter stacks
\* are what they were before its token
C27_StacksRestored == pc \in {"read", "raised", "done"} => StacksRestored

\* C27 but for 'unquote outside of template': that exception leaves one
\* entry more on the context stack than there was before the read
C27_StacksRestoredButOutside ==
    pc \in {"read", "raised", "done"} =>
        IF pc = "raised" /\ err.msg = "unquote outside of template"
        THEN frames = <<>> /\ Len(context) = 1 /\ counters = <<>>
        ELSE StacksRestored

\* a splice that is the whole template raised, and both stacks are empty
C27_Witness ==
    /\ pc = "raised"
    /\ err.msg = "splice not in tuple"
    /\ context = <<>>
    /\ counters = <<>>

\* the text the Lexer has given tokens for
Consumed == SubSeq(code, 1, lexer_pos)

\* a form is yielded to the consumer of the Parser
TopLevelYield == pc = "read" /\ out' /= out

AtTopLevelYield == TopLevelYield => depth' = <<>> /\ context' = <<>> /\ counters' = <<>>

\* C28: while a parse has raised no error, the counter stack has one entry
\* for each backtick marker of the context stack and the depth stack has one
\* entry, the place of its "(", for each "(" read and not yet closed; when a
\* top-level form is yielded the three stacks are empty
C28_StacksAtYield ==
    /\ [](pc \in {"read", "done"} =>
            /\ Len(counters) = Count(context, Backtick)
            /\ Len(depth) = Count(Consumed, "(") - Count(Consumed, ")")
            /\ \A j \in 1..Len(depth) : code[depth[j]] = "(")
    /\ [][AtTopLevelYield]_vars

\* a template of a tuple was yielded, another "(" is open since, and inside
\* it a template is being read
C28_Witness ==
    /\ pc = "read"
    /\ Len(out) = 1
    /\ out[1].k = "tuple"
    /\ templates /= <<>>
    /\ Len(depth) = 1
    /\ context = <<Backtick>>
    /\ Len(counters) = 1

(***************************************************************************)
(* Lissp.compile of a source one of whose top-level forms cannot be read   *)
(* or cannot be compiled.                                                   *)
(***************************************************************************)
\* top-level forms: (d 'a) defines the macro a, (s 'id) sets a global, (a)
\* calls a or expands the macro a, (.a) is a method call without its self
\* (a CompileError), a ) alone is one too many (a hard SyntaxError), a (
\* alone opens a form the source never closes (a soft SyntaxError)
BrokenPieces ==
    {<<"(", "d", " ", "'", "a", ")">>,
     <<"(", "s", " ", "'", "i", "d", ")">>,
     <<"(", "a", ")">>,
     <<"(", ".", "a", ")">>,
     <<")">>,
     <<"(">>}

InitBroken == NoRead /\ IdleCompiler /\ IdleContext /\ IdleThreads

\* Lissp(env=..., evaluate=True).compile(c) of a source of such forms
LisspCompileBroken ==
    /\ pc = "new"
    /\ \E c \in Texts(BrokenPieces, MaxForms), name \in ModuleNames :
          Reads("lissp1", c, CompileEnv(name), "compile")

NextBroken ==
    \/ LisspCompileBroken
    \/ WhitespaceToken
    \/ Open
    \/ Close
    \/ Quote
    \/ Bare
    \/ EndOfTokens
    \/ CompileForm
    \/ RaiseCompileError
    \/ Exec
    \/ SysExit
    \/ StopIteration

SpecBroken == InitBroken /\ [][NextBroken]_vars

\* Lissp.compile has raised: a SyntaxError out of next(forms), or the
\* CompileError of Compiler.compile
CompileFailed == mode = "compile" /\ pc \in {"raised", "CompileError"}

\* the number of the top-level form that failed: the one after the forms
\* the parser yielded, or the last one it yielded
FailedForm == IF pc = "raised" THEN Len(out) + 1 ELSE Len(out)

\* the events of log that are the exec of form j
ExecsOf(j) == {n \in 1..Len(log) : log[n].op = "exec" /\ log[n].i = j}

\* what (d 'a) and (s 'id) are read as
DefinesA == Tuple(<<Str(defmacro_), Tuple(<<Str(quote), Str(<<"a">>)>>)>>)
SetsId == Tuple(<<Str(setglobal), Tuple(<<Str(quote), Str(<<"i", "d">>)>>)>>)

\* the environment has what the forms before form k made
KeepsEffectsBefore(k) ==
    \A n \in 1..Len(log) :
        log[n].op = "read" /\ log[n].i < k =>
            /\ log[n].form = DefinesA => HasMacro(env, <<"a">>)
            /\ log[n].form = SetsId => <<"i", "d">> \in env.globals

\* once Lissp.compile has raised it does nothing more: it returns no text
AfterCompileFailed == ~CompileFailed

\* C29: when reading or compiling top-level form k fails in Lissp.compile
\* (a SyntaxError, soft or hard, or a CompileError), each of the forms
\* 1..k-1 has been executed once and what they made is still in the
\* environment, form k and the forms after it are not executed, and the call
\* ends there: it returns no text.
C29_FailureKeepsEarlierForms ==
    /\ [](CompileFailed =>
            /\ FailedForm >= 1
            /\ \A j \in 1..(FailedForm - 1) : Cardinality(ExecsOf(j)) = 1
            /\ \A n \in 1..Len(log) : log[n].op = "exec" => log[n].i < FailedForm
            /\ KeepsEffectsBefore(FailedForm)
            /\ Len(result) >= FailedForm - 1
            /\ pc = "raised" => err /= NoError
            /\ pc = "CompileError" => log[Len(log)].op = "CompileError")
    /\ [][AfterCompileFailed]_vars

\* (d 'a)(s 'id)( : the third form is never closed, a and id are there
C29_Witness ==
    /\ CompileFailed
    /\ pc = "raised"
    /\ Len(out) = 2
    /\ lexer_pos = Len(code)
    /\ HasMacro(env, <<"a">>)
    /\ <<"i", "d">> \in env.globals
    /\ Len(result) = 2

(***************************************************************************)
(* macroexpand1 and the emitter, on the same form and environment.         *)
(***************************************************************************)
MaxTail == 2

\* heads: a symbol, control words, the special forms, a macro of another
\* module, a macro of this module if there is one
AgreeHeads ==
    {<<"a">>, <<"f">>, <<"r">>, <<":", "a">>, <<":">>, quote, lambda,
     <<"m">> \o MACRO \o <<"a">>, __main__ \o MAYBE \o <<"a">>,
     __main__ \o MACRO \o <<"b">>}

\* the arguments: at most MaxTail of 1 and (a)
AgreeTails == Texts({<<Num(<<"1">>)>>, <<Tuple(<<Str(<<"a">>)>>)>>}, MaxTail)

\* forms: atoms, the empty tuple, a tuple for each head, tuples whose head is
\* no str, a lambda form and the call of a lambda without parameters
AgreeForms ==
    {Num(<<"1">>), Str(<<"a">>), Str(<<":", "a">>), Tuple(<<>>)}
    \cup {Tuple(<<Str(h)>> \o t) : h \in AgreeHeads \ {lambda}, t \in AgreeTails}
    \cup {Tuple(<<h>> \o t) : h \in {Num(<<"1">>), Tuple(<<Str(<<"a">>)>>)}, t \in AgreeTails}
    \cup {Tuple(<<Str(lambda), Tuple(<<>>)>> \o t) : t \in AgreeTails}
    \cup {Tuple(<<Tuple(<<Str(lambda), Tuple(<<>>)>> \o t)>>) : t \in AgreeTails}

\* environments: without _macro_, and with a _macro_ that has the attributes
\* a and r, or attributes set under the names :a, quote and lambda
AgreeEnvs ==
    {new_env(__main__),
     Env(<<__main__>>, TRUE, {<<"a">>, <<"r">>}, {}),
     Env(<<__main__>>, TRUE, {<<"a">>, <<":", "a">>, quote, lambda}, {}),
     Env(<<<<"m">>>>, TRUE, {<<":">>}, {})}

InitAgree == NoRead /\ IdleCompiler /\ IdleContext /\ IdleThreads

\* the macro macroexpand1 calls for f: none for what is no node and for
\* quote and lambda forms, else what Compiler.get_macro finds for the head
macroexpand1_macro(f, e) ==
    IF ~is_node(f) \/ f.e[1] \in {Str(quote), Str(lambda)} THEN NoMacro
    ELSE get_macro(f.e[1], e)

\* the macro the emitter calls for the head of f: compile_form gives a node
\* to tuple_, which gives one with a str head to special, which gives all but
\* quote and lambda to invocation and expand_macro, which asks _get_macro
emitter_macro(f, e) ==
    IF ~is_node(f) THEN NoMacro
    ELSE IF /\ Len(f.e) = 1
            /\ is_node(f.e[1])
            /\ Len(f.e[1].e) >= 2
            /\ f.e[1].e[1] = Str(lambda)
            /\ NoParameters(parameters(f.e[1].e[2], e))
    THEN NoMacro
    ELSE IF ~is_str(f.e[1]) THEN NoMacro
    ELSE IF f.e[1].s \in {quote, lambda} THEN NoMacro
    ELSE _get_macro(f.e[1].s, e)

\* the arguments a macro is called with: macro(*tail)
MacroArgs(f, macro) == IF macro.k = "macro" THEN Tail(f.e) ELSE <<>>

\* compiler.macroexpand1(f, e)
Macroexpand1 ==
    /\ pc = "new"
    /\ log = <<>>
    /\ \E f \in AgreeForms, e \in AgreeEnvs :
          /\ env' = e
          /\ form' = f
          /\ log' = <<[op |-> "macroexpand1", form |-> f, env |-> e,
                       macro |-> macroexpand1_macro(f, e),
                       args |-> MacroArgs(f, macroexpand1_macro(f, e)),
                       result |-> macroexpand1(f, e)]>>
    /\ UNCHANGED <<mode, result>>
    /\ UNCHANGED <<readerVars, contextVars, threadVars, flagVars>>

\* Compiler(env=e, evaluate=False).compile([f]) of the same form in the same
\* environment
CompileSame ==
    /\ pc = "new"
    /\ Len(log) = 1
    /\ log[1].op = "macroexpand1"
    /\ log' = Append(log, [op |-> "compile", form |-> form, env |-> env,
                           macro |-> emitter_macro(form, env),
                           args |-> MacroArgs(form, emitter_macro(form, env)),
                           result |-> compile_form(form, env)])
    /\ UNCHANGED <<env, mode, form, result>>
    /\ UNCHANGED <<readerVars, contextVars, threadVars, flagVars>>

NextAgree ==
    \/ Macroexpand1
    \/ CompileSame

SpecAgree == InitAgree /\ [][NextAgree]_vars

\* both calls are made
BothMade == Len(log) = 2 /\ log[1].op = "macroexpand1" /\ log[2].op = "compile"

\* the code c of the form f is the expansion of the macro its head names,
\* under the comment of the head
ExpandsHead(f, c) == is_node(f) /\ is_str(f.e[1]) /\ c.k = "macro" /\ c.s = f.e[1].s

\* C30: macroexpand1 calls a macro for a form exactly if compiling the form
\* in the same environment calls one for its head, the same macro with the
\* same arguments; quote forms, lambda forms, forms whose head is no str and
\* forms whose head is a control word are expanded by neither.
C30_SameMacroInvocations ==
    BothMade =>
        /\ log[1].macro = log[2].macro
        /\ log[1].args = log[2].args
        /\ (/\ is_node(log[1].form)
            /\ \/ ~is_str(log[1].form.e[1])
               \/ log[1].form.e[1].s \in {quote, lambda}
               \/ StartsWith(log[1].form.e[1].s, <<":">>)) =>
              /\ log[1].macro = NoMacro
              /\ log[2].macro = NoMacro
              /\ ~ExpandsHead(log[2].form, log[2].result)

\* the head of the form is a control word
ControlHead(f) == is_node(f) /\ is_str(f.e[1]) /\ StartsWith(f.e[1].s, <<":">>)

\* the two agree on every form whose head is no control word, and quote
\* forms, lambda forms and forms whose head is no str are expanded by
\* neither
C30_SameMacroInvocationsButControl ==
    BothMade /\ ~ControlHead(log[1].form) =>
        /\ log[1].macro = log[2].macro
        /\ log[1].args = log[2].args
        /\ ExpandsHead(log[2].form, log[2].result) <=> log[2].macro /= NoMacro
        /\ (/\ is_node(log[1].form)
            /\ \/ ~is_str(log[1].form.e[1])
               \/ log[1].form.e[1].s \in {quote, lambda}) =>
              /\ log[1].macro = NoMacro
              /\ ~ExpandsHead(log[2].form, log[2].result)

\* (a 1) where a is a macro: both call a with 1
C30_Witness ==
    /\ BothMade
    /\ log[1].form = Tuple(<<Str(<<"a">>), Num(<<"1">>)>>)
    /\ log[1].macro = Macro(<<"a">>)
    /\ log[2].macro = Macro(<<"a">>)
    /\ log[2].args = <<Num(<<"1">>)>>
    /\ ExpandsHead(log[2].form, log[2].result)

\* (:a 1) where _macro_ has an attribute :a: the emitter alone expands it
C30_ControlHeadExpanded ==
    /\ BothMade
    /\ log[1].form = Tuple(<<Str(<<":", "a">>), Num(<<"1">>)>>)
    /\ log[1].macro = NoMacro
    /\ log[1].result = Returns(log[1].form)
    /\ log[2].macro = Macro(<<":", "a">>)
    /\ ExpandsHead(log[2].form, log[2].result)

=============================================================================
